---- MODULE Spec2Model ----
(***************************************************************************)
(* Academy administration front end: tuition payment status derivation,    *)
(* dashboard aggregates and the pages that load and record the data.       *)
(*                                                                         *)
(* Money and grades are DECIMAL(n,2) columns in the remote store; the      *)
(* model carries them as integer hundredths ("cents").  The pages receive  *)
(* them as JavaScript numbers, i.e. IEEE-754 binary64 values, and do all   *)
(* arithmetic on those.  A binary64 value x is modelled exactly, as a sign *)
(* and the integer |x| * 2^72 held in four 24-bit limbs (least significant *)
(* first); every operation rounds to 53 significant bits, ties to even.    *)
(***************************************************************************)
EXTENDS Integers, Sequences, FiniteSets, TLC

(***************************************************************************)
(* Bounds of the model.                                                    *)
(***************************************************************************)
MaxPayments == 3
MaxGrades == 3
\* parents, payments and grades rows, taken together, that clients writing
\* to the store directly may bring it to
MaxRows == 3

(***************************************************************************)
(* binary64 arithmetic                                                     *)
(***************************************************************************)
Base == 2^24
SigBits == 53

RECURSIVE BitLen(_)
BitLen(n) == IF n = 0 THEN 0 ELSE 1 + BitLen(n \div 2)

MagZero == <<0, 0, 0, 0>>

MagAdd(a, b) ==
    CHOOSE sum \in
      { LET s1 == x[1] + y[1]
            s2 == x[2] + y[2] + (s1 \div Base)
            s3 == x[3] + y[3] + (s2 \div Base)
            s4 == x[4] + y[4] + (s3 \div Base)
        IN  <<s1 % Base, s2 % Base, s3 % Base, s4>> : x \in {a}, y \in {b} } : TRUE

MagSub(a, b) ==
    CHOOSE difference \in
      { LET d1 == x[1] - y[1]
            b1 == IF d1 < 0 THEN 1 ELSE 0
            d2 == x[2] - y[2] - b1
            b2 == IF d2 < 0 THEN 1 ELSE 0
            d3 == x[3] - y[3] - b2
            b3 == IF d3 < 0 THEN 1 ELSE 0
            d4 == x[4] - y[4] - b3
        IN  <<d1 + b1 * Base, d2 + b2 * Base, d3 + b3 * Base, d4>> :
          x \in {a}, y \in {b} } : TRUE

MagLess(a, b) ==
    \E x \in {a}, y \in {b} :
        \/ x[4] < y[4]
        \/ x[4] = y[4] /\ x[3] < y[3]
        \/ x[4] = y[4] /\ x[3] = y[3] /\ x[2] < y[2]
        \/ x[4] = y[4] /\ x[3] = y[3] /\ x[2] = y[2] /\ x[1] < y[1]

MagMul(a, c) ==
    CHOOSE product \in
      { LET p1 == x[1] * c
            p2 == x[2] * c + (p1 \div Base)
            p3 == x[3] * c + (p2 \div Base)
            p4 == x[4] * c + (p3 \div Base)
        IN  <<p1 % Base, p2 % Base, p3 % Base, p4>> : x \in {a} } : TRUE

MagDivMod(a, d) ==
    CHOOSE dm \in
      { LET q4 == x[4] \div d
            r4 == x[4] % d
            n3 == r4 * Base + x[3]
            n2 == (n3 % d) * Base + x[2]
            n1 == (n2 % d) * Base + x[1]
        IN  [q |-> <<n1 \div d, n2 \div d, n3 \div d, q4>>, r |-> n1 % d] :
          x \in {a} } : TRUE

MagBitLen(a) ==
    IF a[4] > 0 THEN 72 + BitLen(a[4])
    ELSE IF a[3] > 0 THEN 48 + BitLen(a[3])
    ELSE IF a[2] > 0 THEN 24 + BitLen(a[2])
    ELSE BitLen(a[1])

MagPow2(t) ==
    CHOOSE pow \in
      { [i \in 1..4 |-> IF i = (s \div 24) + 1 THEN 2^(s % 24) ELSE 0] : s \in {t} } : TRUE

MagLow(a, s) ==
    CHOOSE low \in
      { [i \in 1..4 |-> IF i < (t \div 24) + 1 THEN a[i]
                        ELSE IF i = (t \div 24) + 1 THEN a[i] % (2^(t % 24))
                        ELSE 0] : t \in {s} } : TRUE

MagBit(a, s) == CHOOSE bit \in { (a[(t \div 24) + 1] \div (2^(t % 24))) % 2 : t \in {s} } : TRUE

\* The binary64 rounding of the exact magnitude a + r/d (0 <= r < d):
\* 53 significant bits, round to nearest, ties to even.
RoundNearestEven(a, r, d) ==
    CHOOSE rounded \in
      { LET p == MagBitLen(m)
            s == IF p > SigBits THEN p - SigBits ELSE 0
            low == MagLow(m, s)
            half == MagPow2(s - 1)
            trunc == MagSub(m, low)
            odd == MagBit(m, s) = 1
            up == IF s = 0
                  THEN 2 * r > d \/ (2 * r = d /\ odd)
                  ELSE \/ MagLess(half, low)
                       \/ low = half /\ (r > 0 \/ odd)
        IN  IF up THEN MagAdd(trunc, MagPow2(s)) ELSE trunc : m \in {a} } : TRUE

Dbl(neg, mag) ==
    CHOOSE dbl \in { [neg |-> neg /\ m # MagZero, mag |-> m] : m \in {mag} } : TRUE

Abs(n) == IF n < 0 THEN -n ELSE n

\* Number(v) of a DECIMAL(n,2) value of c hundredths: the binary64 value
\* nearest to c/100.
Number(c) ==
    CHOOSE x \in
      { Dbl(c < 0, RoundNearestEven(dm.q, dm.r, 100)) :
          dm \in {MagDivMod(<<0, 0, 0, Abs(c)>>, 100)} } : TRUE

Plus(x, y) ==
    CHOOSE sum \in
      { IF a.neg = b.neg
        THEN Dbl(a.neg, RoundNearestEven(MagAdd(a.mag, b.mag), 0, 1))
        ELSE IF MagLess(a.mag, b.mag)
             THEN Dbl(b.neg, RoundNearestEven(MagSub(b.mag, a.mag), 0, 1))
             ELSE Dbl(a.neg, RoundNearestEven(MagSub(a.mag, b.mag), 0, 1)) :
          a \in {x}, b \in {y} } : TRUE

Neg(x) == CHOOSE negated \in { Dbl(~a.neg, a.mag) : a \in {x} } : TRUE
Minus(x, y) == Plus(x, Neg(y))

Less(x, y) ==
    \E a \in {x}, b \in {y} :
        IF a.neg # b.neg THEN a.neg
        ELSE IF a.neg THEN MagLess(b.mag, a.mag) ELSE MagLess(a.mag, b.mag)

Times(x, c) ==
    CHOOSE product \in
      { Dbl(a.neg, RoundNearestEven(MagMul(a.mag, c), 0, 1)) : a \in {x} } : TRUE

DividedBy(x, d) ==
    CHOOSE quotient \in
      { LET dm == MagDivMod(a.mag, d)
        IN  Dbl(a.neg, RoundNearestEven(dm.q, dm.r, d)) : a \in {x} } : TRUE

\* Math.round(x): the nearest integer, ties toward +Infinity.
MathRound(x) ==
    CHOOSE n \in
      { LET i == a.mag[4]
            f == <<a.mag[1], a.mag[2], a.mag[3], 0>>
            h == MagPow2(71)
        IN  IF a.neg
            THEN IF MagLess(h, f) THEN -(i + 1) ELSE -i
            ELSE IF MagLess(f, h) THEN i ELSE i + 1 : a \in {x} } : TRUE

FromInt(n) == CHOOSE x \in { Dbl(i < 0, <<0, 0, 0, Abs(i)>>) : i \in {n} } : TRUE

\* x.toFixed(2): the sign and the number of hundredths n for which n/100 is
\* nearest to |x|, the larger n on a tie.
ToFixed2(x) ==
    CHOOSE fixed \in
      { LET p == MagMul(a.mag, 100)
        IN  [neg |-> a.neg, hundredths |-> p[4] + (IF p[3] >= 2^23 THEN 1 ELSE 0)] :
          a \in {x} } : TRUE

Zero == Dbl(FALSE, MagZero)

\* x || 0 on a number that may be undefined: undefined and 0 both give 0.
OrZero(v) ==
    CHOOSE x \in { IF w.undefined \/ w.value = Zero THEN Zero ELSE w.value : w \in {v} } : TRUE

Undefined == [undefined |-> TRUE, value |-> Zero]
Defined(x) == [undefined |-> FALSE, value |-> x]
(***************************************************************************)
(* The remote store (supabase/migrations): students, payments, grades.     *)
(***************************************************************************)
StudentIds == {"s1", "s2"}

\* total_tuition values (hundredths) the registered students may carry;
\* the registration form only lets non-negative values through.
Tuitions == {0, 10}

\* The text columns of the two students (strings are sequences of
\* characters): first_name, last_name, id_number (UNIQUE) and grade_level.
TextColumns ==
    [id \in StudentIds |->
        IF id = "s1"
        THEN [first_name |-> <<"A", "n", "a">>, last_name |-> <<"D", "i", "a", "z">>,
              id_number |-> <<"1", "2", "3", "4", "5">>, grade_level |-> <<"5">>]
        ELSE [first_name |-> <<"B", "o">>, last_name |-> <<"L", "e", "e">>,
              id_number |-> <<"6", "7", "8", "9", "0">>, grade_level |-> <<"6", "A">>]]

StudentRow(id, text, total_tuition) ==
    [id |-> id, first_name |-> text.first_name, last_name |-> text.last_name,
     id_number |-> text.id_number, grade_level |-> text.grade_level,
     total_tuition |-> total_tuition]

\* The students table, in the order an unordered select returns it.
StudentTables ==
    { <<StudentRow("s1", TextColumns["s1"], t), StudentRow("s2", TextColumns["s2"], 10)>> :
        t \in Tuitions }

\* What the payment form can submit: student, amount (hundredths; the input
\* has step 0.01 and no minimum, so a refund is a negative amount) and
\* payment date (a day number).
PaymentForms ==
    { [studentId |-> "s1", amount |-> 1, paymentDate |-> 1],
      [studentId |-> "s1", amount |-> 8, paymentDate |-> 2],
      [studentId |-> "s1", amount |-> -9, paymentDate |-> 1],
      [studentId |-> "s2", amount |-> 8, paymentDate |-> 1] }

\* The payment form as useState leaves it: no student, amount 0, today.
Today == 2

EmptyPaymentForm == [studentId |-> "", amount |-> 0, paymentDate |-> Today]

\* The subjects the migration seeds.
SubjectIds == {"math", "science"}

SeededSubjects == <<[id |-> "math"], [id |-> "science"]>>

\* What the grade form can submit (grade is DECIMAL(5,2), in hundredths; the
\* input has step 0.01 and no minimum).
GradeForms ==
    { [studentId |-> "s1", subjectId |-> "math", grade |-> -25],
      [studentId |-> "s1", subjectId |-> "math", grade |-> 0],
      [studentId |-> "s1", subjectId |-> "science", grade |-> 7000] }

\* The values NOW() takes when a row is created.
Timestamps == {1, 2}

\* The registration form as useState leaves it.  Strings are sequences of
\* characters; totalTuition is what parseFloat made of the input: a number
\* of hundredths, or NaN for an empty input.
Hundredths(c) == [nan |-> FALSE, hundredths |-> c]

NaN == [nan |-> TRUE, hundredths |-> 0]

EmptyStudentForm ==
    [firstName |-> <<>>, lastName |-> <<>>, idNumber |-> <<>>,
     dateOfBirth |-> <<>>, gradeLevel |-> <<>>, totalTuition |-> Hundredths(0),
     parentName |-> <<>>, parentIdNumber |-> <<>>, parentPhone |-> <<>>,
     parentAddress |-> <<>>]

FilledStudentForm ==
    [firstName |-> <<"A", "n", "a">>,
     lastName |-> <<"D", "i", "a", "z">>,
     idNumber |-> <<"1", "2", "3", "4", "5">>,
     dateOfBirth |-> <<"2", "0", "1", "0", "-", "0", "1", "-", "3", "1">>,
     gradeLevel |-> <<"5">>,
     totalTuition |-> Hundredths(10),
     parentName |-> <<"E", "v", "a">>,
     parentIdNumber |-> <<"5", "4", "3", "2", "1">>,
     parentPhone |-> <<"5", "5", "5", "0", "1", "0", "0", "1", "0", "0">>,
     parentAddress |-> <<>>]

\* What the registration form can submit.
StudentForms ==
    { [FilledStudentForm EXCEPT !.totalTuition = t] :
        t \in {Hundredths(0), Hundredths(10), Hundredths(-1), NaN} }
    \cup { [FilledStudentForm EXCEPT !.firstName = <<"A">>,
                                     !.totalTuition = Hundredths(-1)],
           [FilledStudentForm EXCEPT !.parentPhone = <<"5", "5", "5">>],
           [FilledStudentForm EXCEPT !.firstName = <<"B", "o">>,
                                     !.lastName = <<"L", "e", "e">>,
                                     !.idNumber = <<"6", "7", "8", "9", "0">>,
                                     !.gradeLevel = <<"6", "A">>] }

\* What is typed into the search box of the students list.
SearchTerms ==
    { <<>>, <<"a">>, <<"A", "N">>, <<"d", "I">>, <<"5">>, <<"6", "a">>,
      <<"a", "d">>, <<"z", "z">> }

\* The grade form as useState leaves it.
EmptyGradeForm == [studentId |-> "", subjectId |-> "", grade |-> 0]

VARIABLES
    db_students,    \* public.students rows
    db_parents,     \* public.parents rows
    db_subjects,    \* public.subjects rows
    db_payments,    \* public.payments rows, in heap order
    db_grades,      \* public.grades rows, in heap order
    request,        \* the last request a client made to the store directly
    route,          \* the mounted page: [path, id]
    dashboard,      \* Dashboard component state
    studentsPage,   \* Students component state
    paymentsPage,   \* Payments component state
    studentDetail,  \* StudentDetail component state
    gradesPage,     \* Grades component state
    toast           \* the notification shown last

vars == <<db_students, db_parents, db_subjects, db_payments, db_grades, request,
          route, dashboard, studentsPage, paymentsPage, studentDetail, gradesPage,
          toast>>

(***************************************************************************)
(* Sequence helpers (Array.prototype.reduce / filter / map / sort).        *)
(***************************************************************************)
RECURSIVE Reduce(_, _, _)
Reduce(f(_, _), acc, seq) ==
    IF seq = <<>> THEN acc
    ELSE CHOOSE result \in
           { Reduce(f, next, Tail(seq)) : next \in {f(acc, Head(seq))} } : TRUE

Filter(seq, Test(_)) == SelectSeq(seq, Test)

Map(seq, f(_)) == [i \in DOMAIN seq |-> f(seq[i])]

\* All orders in which a select ... order by payment_date desc may return
\* the rows: descending dates, rows of equal date in any order.
OrderByDateDesc(rows) ==
    { [i \in DOMAIN rows |-> rows[perm[i]]] :
        perm \in { q \in [DOMAIN rows -> DOMAIN rows] :
                     /\ \A i, j \in DOMAIN rows : i # j => q[i] # q[j]
                     /\ \A i, j \in DOMAIN rows :
                          i < j => rows[q[i]].payment_date >= rows[q[j]].payment_date } }

Reverse(seq) == [i \in DOMAIN seq |-> seq[Len(seq) + 1 - i]]

(***************************************************************************)
(* The remote store: row level security and the constraints of the         *)
(* tables.  Every policy of the five tables has the same condition.        *)
(***************************************************************************)
Roles == {"anon", "authenticated"}

\* auth.role() of a request: that of the signed-in user, or anon.
AuthRole(user) == IF user THEN "authenticated" ELSE "anon"

\* A policy that lets every caller through.
Policy_Anyone(role) == role \in Roles

\* USING / WITH CHECK (auth.role() = 'authenticated')
Policy(role) == role = "authenticated"

HasStudent(id) == \E i \in DOMAIN db_students : db_students[i].id = id

HasSubject(id) == \E i \in DOMAIN db_subjects : db_subjects[i].id = id

\* select: the rows the policy lets the caller see.
SelectFrom(role, rows) == IF Policy(role) THEN rows ELSE <<>>

\* The outcome of a command: whether it failed, and the rows of the table
\* after it.
Outcome(ok, before, after) ==
    [error |-> ~ok, rows |-> IF ok THEN after ELSE before]

\* insert into students: id is the primary key and id_number is UNIQUE.
InsertStudent(role, row) ==
    Outcome(/\ Policy(role)
            /\ ~HasStudent(row.id)
            /\ \A i \in DOMAIN db_students : db_students[i].id_number # row.id_number,
            db_students, Append(db_students, row))

HasStudentIn(students, id) == \E i \in DOMAIN students : students[i].id = id

\* insert into parents: student_id references students(id); students is the
\* students table at the time of the insert.
InsertParent(role, row, students) ==
    Outcome(Policy(role) /\ HasStudentIn(students, row.student_id),
            db_parents, Append(db_parents, row))

\* insert into payments: student_id references students(id).
InsertPayment(role, row) ==
    Outcome(Policy(role) /\ HasStudent(row.student_id),
            db_payments, Append(db_payments, row))

\* UNIQUE(student_id, subject_id, created_at)
SameGradeKey(a, b) ==
    /\ a.student_id = b.student_id
    /\ a.subject_id = b.subject_id
    /\ a.created_at = b.created_at

\* A table without the unique constraint.
GradeKeyFree_NoConstraint(row) == row.created_at \in Timestamps

GradeKeyFree(row) == \A i \in DOMAIN db_grades : ~SameGradeKey(db_grades[i], row)

\* insert into grades: student_id and subject_id are references.
InsertGrade(role, row) ==
    Outcome(/\ Policy(role)
            /\ HasStudent(row.student_id)
            /\ HasSubject(row.subject_id)
            /\ GradeKeyFree(row),
            db_grades, Append(db_grades, row))

\* NOW() does not go back: no row of the table is later than t.
IsNow(t) == t \in Timestamps /\ \A i \in DOMAIN db_grades : db_grades[i].created_at <= t

(***************************************************************************)
(* Payments page: calculatePaymentStatus.                                  *)
(***************************************************************************)
\* studentPayments[payment.student_id] =
\*   (studentPayments[payment.student_id] || 0) + Number(payment.amount)
\* A grouping that loses the key: the amount is credited to every student.
GroupPayment_AnyStudent(acc, payment) ==
    [id \in StudentIds |-> Defined(Plus(OrZero(acc[id]), Number(payment.amount)))]

GroupPayment(acc, payment) ==
    [acc EXCEPT ![payment.student_id] =
        Defined(Plus(OrZero(acc[payment.student_id]), Number(payment.amount)))]

GroupByStudent(payments) ==
    Reduce(GroupPayment, [id \in StudentIds |-> Undefined], payments)

\* The first test written with > in place of >=.
PaymentStatus_StrictlyMore(totalPaid, totalTuition) ==
    IF Less(totalTuition, totalPaid) THEN "Paid"
    ELSE IF Less(Zero, totalPaid) THEN "Partial Payment"
    ELSE "Unpaid"

PaymentStatus(totalPaid, totalTuition) ==
    IF ~Less(totalPaid, totalTuition) THEN "Paid"
    ELSE IF Less(Zero, totalPaid) THEN "Partial Payment"
    ELSE "Unpaid"

calculatePaymentStatus(students, payments) ==
    LET studentPayments == GroupByStudent(payments)
        WithStatus(student) ==
            LET totalPaid == OrZero(studentPayments[student.id])
                totalTuition == Number(student.total_tuition)
            IN  [id |-> student.id,
                 total_tuition |-> student.total_tuition,
                 totalPaid |-> totalPaid,
                 status |-> PaymentStatus(totalPaid, totalTuition)]
    IN  Map(students, WithStatus)

\* The items of the status filter.
StatusFilters == {"all", "Paid", "Partial Payment", "Unpaid"}

\* A filter whose "Unpaid" item takes every student who still owes.
filteredStudents_UnpaidIsOwing(filterStatus, studentsWithPayments) ==
    IF filterStatus = "all" THEN studentsWithPayments
    ELSE IF filterStatus = "Unpaid"
    THEN Filter(studentsWithPayments, LAMBDA st : st.status # "Paid")
    ELSE Filter(studentsWithPayments, LAMBDA st : st.status = filterStatus)

filteredStudents(filterStatus, studentsWithPayments) ==
    IF filterStatus = "all" THEN studentsWithPayments
    ELSE Filter(studentsWithPayments, LAMBDA st : st.status = filterStatus)

\* The balance cell of a row of the list.
BalanceCell(student) == Minus(Number(student.total_tuition), student.totalPaid)

(***************************************************************************)
(* StudentDetail: the payment summary of one student.                      *)
(***************************************************************************)
AddAmount(sum, payment) == Plus(sum, Number(payment.amount))

DetailTotalPaid(payments) == Reduce(AddAmount, Zero, payments)

DetailBalance(student, payments) ==
    Minus(Number(student.total_tuition), DetailTotalPaid(payments))

DetailPaymentStatus(student, payments) ==
    LET totalPaid == DetailTotalPaid(payments)
    IN  IF ~Less(totalPaid, Number(student.total_tuition)) THEN "Paid"
        ELSE IF Less(Zero, totalPaid) THEN "Partial Payment"
        ELSE "Unpaid"

(***************************************************************************)
(* Dashboard: the aggregates of loadStats.                                 *)
(***************************************************************************)
DashTotalPaid(payments) == Reduce(AddAmount, Zero, payments)

\* The test written with <= in place of <.
IsPending_OrEqual(student, paymentsByStudent) ==
    ~Less(Number(student.total_tuition), OrZero(paymentsByStudent[student.id]))

IsPending(student, paymentsByStudent) ==
    Less(OrZero(paymentsByStudent[student.id]), Number(student.total_tuition))

PendingCount(students, payments) ==
    LET paymentsByStudent == GroupByStudent(payments)
    IN  Len(Filter(students, LAMBDA st : IsPending(st, paymentsByStudent)))

AddGrade(sum, g) == Plus(sum, Number(g.grade))

AvgGrade(grades) ==
    IF Len(grades) > 0
    THEN DividedBy(Reduce(AddGrade, Zero, grades), Len(grades))
    ELSE Zero

\* Math.round(avgGrade * 10) / 10
RoundedAverage(avgGrade) == DividedBy(FromInt(MathRound(Times(avgGrade, 10))), 10)

\* stats.averageGrade || "N/A" on the "Average Grade" card.
AverageGradeCard(stats) ==
    IF stats.averageGrade = Zero
    THEN [text |-> "N/A", number |-> Zero]
    ELSE [text |-> "number", number |-> stats.averageGrade]
(***************************************************************************)
(* Component state after mount (the useState initial values).              *)
(***************************************************************************)
NoRows == [error |-> FALSE, data |-> <<>>]

DashboardMounted ==
    [stats |-> [totalStudents |-> 0, totalPayments |-> Zero,
                pendingPayments |-> 0, averageGrade |-> Zero],
     loading |-> TRUE,
     \* the responses loadStats last worked from
     students |-> NoRows, payments |-> NoRows, grades |-> NoRows]

\* A loadData call whose selects the store has not answered yet; latest
\* marks the call made last.
LoadSent == [served |-> FALSE, latest |-> TRUE, students |-> NoRows, payments |-> NoRows]

PaymentsMounted ==
    [students |-> <<>>, payments |-> <<>>, studentsWithPayments |-> <<>>,
     loading |-> TRUE,
     \* a loadData call has been made and has not finished
     inFlight |-> TRUE,
     \* the loadData calls that have not finished, in the order they were
     \* made, and how the call made last ended: "pending", "ok" or "error"
     loads |-> <<LoadSent>>, lastLoad |-> "pending",
     isDialogOpen |-> FALSE, filterStatus |-> "all",
     formData |-> EmptyPaymentForm]

StudentDetailMounted ==
    [student |-> <<>>, parent |-> <<>>, payments |-> <<>>, grades |-> <<>>,
     loading |-> TRUE,
     \* whether the payments and grades responses last received were errors
     paymentsError |-> FALSE, gradesError |-> FALSE]

GradesMounted ==
    [students |-> <<>>, grades |-> <<>>, loading |-> TRUE, inFlight |-> TRUE,
     isDialogOpen |-> FALSE, formData |-> EmptyGradeForm]

StudentsMounted ==
    [students |-> <<>>, loading |-> TRUE, inFlight |-> TRUE, searchTerm |-> <<>>,
     isDialogOpen |-> FALSE, formData |-> EmptyStudentForm]

NoRequest == [role |-> "anon", command |-> "none", table |-> "none",
              error |-> FALSE, data |-> <<>>]

\* The routes of App: the page of each path and the guard around it.
AppRoutes ==
    [path \in {"/auth", "/dashboard", "/students", "/student", "/payments", "/grades"} |->
        CASE path = "/auth" -> [guard |-> "none", page |-> "Auth"]
          [] path = "/dashboard" -> [guard |-> "ProtectedRoute", page |-> "Dashboard"]
          [] path = "/students" -> [guard |-> "ProtectedRoute", page |-> "Students"]
          [] path = "/student" -> [guard |-> "ProtectedRoute", page |-> "StudentDetail"]
          [] path = "/payments" -> [guard |-> "ProtectedRoute", page |-> "Payments"]
          [] path = "/grades" -> [guard |-> "ProtectedRoute", page |-> "Grades"]]

\* The paths of the pages that show academy records.
Paths == DOMAIN AppRoutes \ {"/auth"}

Routes ==
    { [path |-> p, id |-> "none"] : p \in Paths \ {"/student"} }
    \cup { [path |-> "/student", id |-> i] : i \in StudentIds }

\* Every student of the tables above has one parent row.
ParentsOf(students) == [i \in DOMAIN students |-> [student_id |-> students[i].id]]

Init ==
    /\ db_students \in StudentTables
    /\ db_parents = ParentsOf(db_students)
    /\ db_subjects = SeededSubjects
    /\ db_payments = <<>>
    /\ db_grades = <<>>
    /\ request = NoRequest
    /\ route = [path |-> "/auth", id |-> "none"]
    /\ dashboard = DashboardMounted
    /\ studentsPage = StudentsMounted
    /\ paymentsPage = PaymentsMounted
    /\ studentDetail = StudentDetailMounted
    /\ gradesPage = GradesMounted
    /\ toast = "none"

(***************************************************************************)
(* The responses of the remote store.                                      *)
(***************************************************************************)
Response(error, rows) == [error |-> error, data |-> IF error THEN <<>> ELSE rows]

(***************************************************************************)
(* Routing (App.tsx): the page of the new route is mounted afresh, the     *)
(* page left is unmounted and its state is gone.                           *)
(***************************************************************************)
Navigate(r) ==
    /\ r # route
    /\ route' = r
    /\ dashboard' = DashboardMounted
    /\ studentsPage' = StudentsMounted
    /\ paymentsPage' = PaymentsMounted
    /\ studentDetail' = StudentDetailMounted
    /\ gradesPage' = GradesMounted
    /\ UNCHANGED <<db_students, db_parents, db_subjects, db_payments,
                   db_grades, request, toast>>

(***************************************************************************)
(* Dashboard.loadStats                                                     *)
(***************************************************************************)
loadStats(countErr, studentsErr, paymentsErr, gradesErr) ==
    /\ route.path = "/dashboard"
    /\ dashboard.loading
    /\ LET studentsCount == IF countErr THEN 0 ELSE Len(db_students)
           students == Response(studentsErr, db_students)
           payments == Response(paymentsErr, db_payments)
           grades == Response(gradesErr, db_grades)
       IN  dashboard' =
             [stats |-> [totalStudents |-> studentsCount,
                         totalPayments |-> DashTotalPaid(payments.data),
                         pendingPayments |-> PendingCount(students.data, payments.data),
                         averageGrade |-> RoundedAverage(AvgGrade(grades.data))],
              loading |-> FALSE,
              students |-> students, payments |-> payments, grades |-> grades]
    /\ UNCHANGED <<db_students, db_parents, db_subjects, db_payments,
                   db_grades, route, paymentsPage, studentDetail, gradesPage,
                   toast, request, studentsPage>>

(***************************************************************************)
(* Payments.loadData, followed by the calculatePaymentStatus effect that   *)
(* runs when students or payments were replaced.                           *)
(***************************************************************************)
\* loadData() is called: one more call in flight, and it is the latest.
loadDataCalled(page) ==
    [page EXCEPT !.inFlight = TRUE,
                 !.loads = Append([i \in DOMAIN page.loads |->
                                     [page.loads[i] EXCEPT !.latest = FALSE]],
                                  LoadSent),
                 !.lastLoad = "pending"]

\* A loadData that stores the students before it looks at the payments
\* response.
PaymentsLoaded_StudentsFirst(page, studentsRes, paymentsRes) ==
    IF studentsRes.error
    THEN [page EXCEPT !.loading = FALSE]
    ELSE IF paymentsRes.error
    THEN [page EXCEPT !.students = studentsRes.data,
                      !.studentsWithPayments =
                          calculatePaymentStatus(studentsRes.data, page.payments),
                      !.loading = FALSE]
    ELSE [page EXCEPT !.students = studentsRes.data,
                      !.payments = paymentsRes.data,
                      !.studentsWithPayments =
                          calculatePaymentStatus(studentsRes.data, paymentsRes.data),
                      !.loading = FALSE]

\* The page after loadData has received the two responses: the throw on
\* either error, the two setters, the effect they trigger, and finally.
PaymentsLoaded(page, studentsRes, paymentsRes) ==
    IF studentsRes.error \/ paymentsRes.error
    THEN [page EXCEPT !.loading = FALSE]
    ELSE [page EXCEPT !.students = studentsRes.data,
                      !.payments = paymentsRes.data,
                      !.studentsWithPayments =
                          calculatePaymentStatus(studentsRes.data, paymentsRes.data),
                      !.loading = FALSE]

\* The derived list computed once and kept: the effect does not run again
\* when students or payments are replaced.
PaymentsLoadData_NoRecompute(studentsErr, paymentsErr) ==
    /\ route.path = "/payments"
    /\ paymentsPage.inFlight
    /\ IF studentsErr \/ paymentsErr
       THEN /\ toast' = "error"
            /\ paymentsPage' = [paymentsPage EXCEPT !.loading = FALSE, !.inFlight = FALSE,
                                                    !.loads = <<>>, !.lastLoad = "error"]
       ELSE /\ toast' = toast
            /\ paymentsPage' =
                 [paymentsPage EXCEPT
                    !.students = db_students,
                    !.payments = db_payments,
                    !.loading = FALSE,
                    !.inFlight = FALSE,
                    !.loads = <<>>,
                    !.lastLoad = "ok"]
    /\ UNCHANGED <<db_students, db_parents, db_subjects, db_payments,
                   db_grades, route, dashboard, studentDetail, gradesPage,
                   request, studentsPage>>

\* Every call in flight is answered by the store now, and the answers
\* arrive in the order of the calls.
PaymentsLoadData(studentsErr, paymentsErr) ==
    /\ route.path = "/payments"
    /\ paymentsPage.inFlight
    /\ toast' = IF studentsErr \/ paymentsErr THEN "error" ELSE toast
    /\ paymentsPage' =
         [PaymentsLoaded(paymentsPage, Response(studentsErr, db_students),
                         Response(paymentsErr, db_payments))
            EXCEPT !.inFlight = FALSE,
                   !.loads = <<>>,
                   !.lastLoad = IF studentsErr \/ paymentsErr THEN "error" ELSE "ok"]
    /\ UNCHANGED <<db_students, db_parents, db_subjects, db_payments,
                   db_grades, route, dashboard, studentDetail, gradesPage,
                   request, studentsPage>>

\* The store answers the selects of the call at position k.
PaymentsLoadDataServed(k, studentsErr, paymentsErr) ==
    /\ route.path = "/payments"
    /\ k \in DOMAIN paymentsPage.loads
    /\ ~paymentsPage.loads[k].served
    /\ paymentsPage' =
         [paymentsPage EXCEPT
            !.loads[k] = [served |-> TRUE, latest |-> @.latest,
                          students |-> Response(studentsErr, db_students),
                          payments |-> Response(paymentsErr, db_payments)]]
    /\ UNCHANGED <<db_students, db_parents, db_subjects, db_payments,
                   db_grades, route, dashboard, studentDetail, gradesPage,
                   toast, request, studentsPage>>

\* The answers of the call at position k arrive: Promise.all resolves and
\* the rest of loadData runs.
PaymentsLoadDataReceived(k) ==
    /\ route.path = "/payments"
    /\ k \in DOMAIN paymentsPage.loads
    /\ paymentsPage.loads[k].served
    /\ LET load == paymentsPage.loads[k]
           failed == load.students.error \/ load.payments.error
           rest == [i \in 1..(Len(paymentsPage.loads) - 1) |->
                      IF i < k THEN paymentsPage.loads[i] ELSE paymentsPage.loads[i + 1]]
       IN  /\ toast' = IF failed THEN "error" ELSE toast
           /\ paymentsPage' =
                [PaymentsLoaded(paymentsPage, load.students, load.payments)
                   EXCEPT !.inFlight = (rest # <<>>),
                          !.loads = rest,
                          !.lastLoad = IF ~load.latest THEN @
                                       ELSE IF failed THEN "error" ELSE "ok"]
    /\ UNCHANGED <<db_students, db_parents, db_subjects, db_payments,
                   db_grades, route, dashboard, studentDetail, gradesPage,
                   request, studentsPage>>

(***************************************************************************)
(* Payments.handleSubmit                                                   *)
(***************************************************************************)
\* The dialog: DialogTrigger, Cancel and onOpenChange set isDialogOpen.
PaymentsSetIsDialogOpen(open) ==
    /\ route.path = "/payments"
    /\ paymentsPage.isDialogOpen # open
    /\ paymentsPage' = [paymentsPage EXCEPT !.isDialogOpen = open]
    /\ UNCHANGED <<db_students, db_parents, db_subjects, db_payments,
                   db_grades, route, dashboard, studentDetail, gradesPage,
                   toast, request, studentsPage>>

\* onValueChange of the status filter.
PaymentsSetFilterStatus(status) ==
    /\ route.path = "/payments"
    /\ status \in StatusFilters
    /\ status # paymentsPage.filterStatus
    /\ paymentsPage' = [paymentsPage EXCEPT !.filterStatus = status]
    /\ UNCHANGED <<db_students, db_parents, db_subjects, db_payments,
                   db_grades, route, dashboard, studentDetail, gradesPage,
                   toast, request, studentsPage>>

\* The onChange handlers of the form, taken together: the student is picked
\* among the loaded students, the amount and the date are typed.
PaymentsSetFormData(f) ==
    /\ route.path = "/payments"
    /\ paymentsPage.isDialogOpen
    /\ f # paymentsPage.formData
    /\ \E i \in DOMAIN paymentsPage.students : paymentsPage.students[i].id = f.studentId
    /\ paymentsPage' = [paymentsPage EXCEPT !.formData = f]
    /\ UNCHANGED <<db_students, db_parents, db_subjects, db_payments,
                   db_grades, route, dashboard, studentDetail, gradesPage,
                   toast, request, studentsPage>>

\* A form validation that turns refunds away.
PaymentsHandleSubmit_RejectNegative(user, insertError) ==
    /\ route.path = "/payments"
    /\ paymentsPage.isDialogOpen
    /\ Len(db_payments) < MaxPayments
    /\ LET formData == paymentsPage.formData
           inserted == InsertPayment(AuthRole(user),
                                     [student_id |-> formData.studentId,
                                      amount |-> formData.amount,
                                      payment_date |-> formData.paymentDate])
       IN  IF user /\ ~insertError /\ ~inserted.error /\ formData.amount > 0
           THEN /\ db_payments' = inserted.rows
                /\ toast' = "success"
                /\ paymentsPage' =
                     loadDataCalled([paymentsPage EXCEPT !.isDialogOpen = FALSE,
                                                         !.formData = EmptyPaymentForm])
           ELSE /\ toast' = IF user THEN "error" ELSE "Not authenticated"
                /\ UNCHANGED <<db_payments, paymentsPage>>
    /\ UNCHANGED <<db_students, db_parents, db_subjects, db_grades, route,
                   dashboard, studentDetail, gradesPage, request,
                   studentsPage>>

PaymentsHandleSubmit(user, insertError) ==
    /\ route.path = "/payments"
    /\ paymentsPage.isDialogOpen
    /\ Len(db_payments) < MaxPayments
    /\ LET formData == paymentsPage.formData
           inserted == InsertPayment(AuthRole(user),
                                     [student_id |-> formData.studentId,
                                      amount |-> formData.amount,
                                      payment_date |-> formData.paymentDate])
       IN  IF user /\ ~insertError /\ ~inserted.error
           THEN /\ db_payments' = inserted.rows
                /\ toast' = "success"
                /\ paymentsPage' =
                     loadDataCalled([paymentsPage EXCEPT !.isDialogOpen = FALSE,
                                                         !.formData = EmptyPaymentForm])
           ELSE /\ toast' = IF user THEN "error" ELSE "Not authenticated"
                /\ UNCHANGED <<db_payments, paymentsPage>>
    /\ UNCHANGED <<db_students, db_parents, db_subjects, db_grades, route,
                   dashboard, studentDetail, gradesPage, request,
                   studentsPage>>

(***************************************************************************)
(* StudentDetail.loadStudentData                                           *)
(***************************************************************************)
loadStudentData(studentErr, parentErr, paymentsErr, gradesErr, ordered) ==
    /\ route.path = "/student"
    /\ studentDetail.loading
    /\ ordered \in OrderByDateDesc(
                     Filter(db_payments, LAMBDA pm : pm.student_id = route.id))
    /\ LET found == Filter(db_students, LAMBDA st : st.id = route.id)
           parents == Filter(db_parents, LAMBDA pr : pr.student_id = route.id)
       IN  \* .single() is an error unless exactly one row comes back
           IF studentErr \/ Len(found) # 1
           THEN /\ toast' = "error"
                /\ studentDetail' = [studentDetail EXCEPT !.loading = FALSE]
           ELSE /\ toast' = toast
                /\ studentDetail' =
                     [student |-> found,
                      parent |-> IF parentErr \/ Len(parents) # 1
                                 THEN <<>> ELSE parents,
                      payments |-> Response(paymentsErr, ordered).data,
                      grades |-> Response(gradesErr,
                                   Reverse(Filter(db_grades,
                                       LAMBDA g : g.student_id = route.id))).data,
                      loading |-> FALSE,
                      paymentsError |-> paymentsErr,
                      gradesError |-> gradesErr]
    /\ UNCHANGED <<db_students, db_parents, db_subjects, db_payments,
                   db_grades, route, dashboard, paymentsPage, gradesPage,
                   request, studentsPage>>

(***************************************************************************)
(* Grades.loadData and Grades.handleSubmit                                 *)
(***************************************************************************)
GradesLoadData(studentsErr, subjectsErr, gradesErr) ==
    /\ route.path = "/grades"
    /\ gradesPage.inFlight
    /\ IF studentsErr \/ subjectsErr \/ gradesErr
       THEN /\ toast' = "error"
            /\ gradesPage' = [gradesPage EXCEPT !.loading = FALSE, !.inFlight = FALSE]
       ELSE /\ toast' = toast
            /\ gradesPage' = [gradesPage EXCEPT !.students = db_students,
                                                !.grades = Reverse(db_grades),
                                                !.loading = FALSE,
                                                !.inFlight = FALSE]
    /\ UNCHANGED <<db_students, db_parents, db_subjects, db_payments,
                   db_grades, route, dashboard, paymentsPage, studentDetail,
                   request, studentsPage>>

GradesSetIsDialogOpen(open) ==
    /\ route.path = "/grades"
    /\ gradesPage.isDialogOpen # open
    /\ gradesPage' = [gradesPage EXCEPT !.isDialogOpen = open]
    /\ UNCHANGED <<db_students, db_parents, db_subjects, db_payments,
                   db_grades, route, dashboard, paymentsPage, studentDetail,
                   toast, request, studentsPage>>

GradesSetFormData(f) ==
    /\ route.path = "/grades"
    /\ gradesPage.isDialogOpen
    /\ f # gradesPage.formData
    /\ \E i \in DOMAIN gradesPage.students : gradesPage.students[i].id = f.studentId
    /\ gradesPage' = [gradesPage EXCEPT !.formData = f]
    /\ UNCHANGED <<db_students, db_parents, db_subjects, db_payments,
                   db_grades, route, dashboard, paymentsPage, studentDetail,
                   toast, request, studentsPage>>
\* A handler that closes and clears its dialog whatever the outcome.
GradesHandleSubmit_ClosesAnyway(user, insertError, now) ==
    /\ route.path = "/grades"
    /\ gradesPage.isDialogOpen
    /\ Len(db_grades) < MaxGrades
    /\ IsNow(now)
    /\ LET formData == gradesPage.formData
           inserted == InsertGrade(AuthRole(user),
                                   [student_id |-> formData.studentId,
                                    subject_id |-> formData.subjectId,
                                    grade |-> formData.grade,
                                    created_at |-> now])
       IN  IF user /\ ~insertError /\ ~inserted.error
           THEN /\ db_grades' = inserted.rows
                /\ toast' = "success"
                /\ gradesPage' = [gradesPage EXCEPT !.isDialogOpen = FALSE,
                                                    !.formData = EmptyGradeForm,
                                                    !.inFlight = TRUE]
           ELSE /\ toast' = IF user THEN "error" ELSE "Not authenticated"
                /\ gradesPage' = [gradesPage EXCEPT !.isDialogOpen = FALSE,
                                                    !.formData = EmptyGradeForm]
                /\ UNCHANGED db_grades
    /\ UNCHANGED <<db_students, db_parents, db_subjects, db_payments, route,
                   dashboard, paymentsPage, studentDetail, request,
                   studentsPage>>

\* now is the value NOW() gives created_at, which the insert leaves to its
\* default.
GradesHandleSubmit(user, insertError, now) ==
    /\ route.path = "/grades"
    /\ gradesPage.isDialogOpen
    /\ Len(db_grades) < MaxGrades
    /\ IsNow(now)
    /\ LET formData == gradesPage.formData
           inserted == InsertGrade(AuthRole(user),
                                   [student_id |-> formData.studentId,
                                    subject_id |-> formData.subjectId,
                                    grade |-> formData.grade,
                                    created_at |-> now])
       IN  IF user /\ ~insertError /\ ~inserted.error
           THEN /\ db_grades' = inserted.rows
                /\ toast' = "success"
                /\ gradesPage' = [gradesPage EXCEPT !.isDialogOpen = FALSE,
                                                    !.formData = EmptyGradeForm,
                                                    !.inFlight = TRUE]
           ELSE /\ toast' = IF user THEN "error" ELSE "Not authenticated"
                /\ UNCHANGED <<db_grades, gradesPage>>
    /\ UNCHANGED <<db_students, db_parents, db_subjects, db_payments, route,
                   dashboard, paymentsPage, studentDetail, request,
                   studentsPage>>

(***************************************************************************)
(* Students: studentSchema, loadStudents and handleSubmit.                 *)
(***************************************************************************)
\* The checks of studentSchema in the order of its fields: the messages of
\* the fields that fail.
SchemaIssues(checks) ==
    LET failed == Filter(checks, LAMBDA c : ~c.ok)
    IN  [i \in DOMAIN failed |-> failed[i].message]

\* totalTuition: z.number() with no lower limit.
TuitionCheck_NoMinimum(totalTuition) ==
    IF totalTuition.nan
    THEN [ok |-> FALSE, message |-> "Expected number, received nan"]
    ELSE [ok |-> TRUE, message |-> "Tuition must be positive"]

\* totalTuition: z.number().min(0, "Tuition must be positive")
TuitionCheck(totalTuition) ==
    IF totalTuition.nan
    THEN [ok |-> FALSE, message |-> "Expected number, received nan"]
    ELSE [ok |-> ~Less(Number(totalTuition.hundredths), Zero),
          message |-> "Tuition must be positive"]

\* studentSchema.safeParse(formData)
studentSchema(formData) ==
    LET MinLen(str, n, message) == [ok |-> Len(str) >= n, message |-> message]
        issues == SchemaIssues(
          <<MinLen(formData.firstName, 2, "First name must be at least 2 characters"),
            MinLen(formData.lastName, 2, "Last name must be at least 2 characters"),
            MinLen(formData.idNumber, 5, "ID number must be at least 5 characters"),
            MinLen(formData.dateOfBirth, 1, "Date of birth is required"),
            MinLen(formData.gradeLevel, 1, "Grade level is required"),
            TuitionCheck(formData.totalTuition),
            MinLen(formData.parentName, 2, "Parent name must be at least 2 characters"),
            MinLen(formData.parentIdNumber, 5, "Parent ID must be at least 5 characters"),
            MinLen(formData.parentPhone, 10, "Phone must be at least 10 characters")>>)
    IN  [success |-> issues = <<>>, errors |-> issues]

\* A loadStudents whose setLoading(false) ends the try block, not a finally.
loadStudents_LoadingKeptOnError(studentsErr) ==
    /\ route.path = "/students"
    /\ studentsPage.inFlight
    /\ IF studentsErr
       THEN /\ toast' = "error"
            /\ studentsPage' = [studentsPage EXCEPT !.inFlight = FALSE]
       ELSE /\ toast' = toast
            /\ studentsPage' = [studentsPage EXCEPT !.students = Reverse(db_students),
                                                    !.loading = FALSE,
                                                    !.inFlight = FALSE]
    /\ UNCHANGED <<db_students, db_parents, db_subjects, db_payments,
                   db_grades, request, route, dashboard, paymentsPage,
                   studentDetail, gradesPage>>

\* select * from students order by created_at desc
loadStudents(studentsErr) ==
    /\ route.path = "/students"
    /\ studentsPage.inFlight
    /\ IF studentsErr
       THEN /\ toast' = "error"
            /\ studentsPage' = [studentsPage EXCEPT !.loading = FALSE,
                                                    !.inFlight = FALSE]
       ELSE /\ toast' = toast
            /\ studentsPage' = [studentsPage EXCEPT !.students = Reverse(db_students),
                                                    !.loading = FALSE,
                                                    !.inFlight = FALSE]
    /\ UNCHANGED <<db_students, db_parents, db_subjects, db_payments,
                   db_grades, request, route, dashboard, paymentsPage,
                   studentDetail, gradesPage>>

\* String.prototype.toLowerCase, on the letters A to Z.
UpperCase == <<"A", "B", "C", "D", "E", "F", "G", "H", "I", "J", "K", "L", "M",
               "N", "O", "P", "Q", "R", "S", "T", "U", "V", "W", "X", "Y", "Z">>

LowerCase == <<"a", "b", "c", "d", "e", "f", "g", "h", "i", "j", "k", "l", "m",
               "n", "o", "p", "q", "r", "s", "t", "u", "v", "w", "x", "y", "z">>

toLowerCase(str) ==
    [i \in DOMAIN str |->
        IF \E k \in DOMAIN UpperCase : UpperCase[k] = str[i]
        THEN LowerCase[CHOOSE k \in DOMAIN UpperCase : UpperCase[k] = str[i]]
        ELSE str[i]]

\* String.prototype.includes
includes(str, searchString) ==
    \E i \in 0..(Len(str) - Len(searchString)) :
        SubSeq(str, i + 1, i + Len(searchString)) = searchString

\* A filter that lowers the columns and not the search term.
StudentsFilteredStudents_TermAsTyped(students, searchTerm) ==
    Filter(students, LAMBDA student :
        \/ includes(toLowerCase(student.first_name), searchTerm)
        \/ includes(toLowerCase(student.last_name), searchTerm)
        \/ includes(toLowerCase(student.id_number), searchTerm)
        \/ includes(toLowerCase(student.grade_level), searchTerm))

\* filteredStudents of the Students page
StudentsFilteredStudents(students, searchTerm) ==
    Filter(students, LAMBDA student :
        \/ includes(toLowerCase(student.first_name), toLowerCase(searchTerm))
        \/ includes(toLowerCase(student.last_name), toLowerCase(searchTerm))
        \/ includes(toLowerCase(student.id_number), toLowerCase(searchTerm))
        \/ includes(toLowerCase(student.grade_level), toLowerCase(searchTerm)))

\* onChange of the search box.
StudentsSetSearchTerm(term) ==
    /\ route.path = "/students"
    /\ term \in SearchTerms
    /\ term # studentsPage.searchTerm
    /\ studentsPage' = [studentsPage EXCEPT !.searchTerm = term]
    /\ UNCHANGED <<db_students, db_parents, db_subjects, db_payments,
                   db_grades, request, route, dashboard, paymentsPage,
                   studentDetail, gradesPage, toast>>

StudentsSetIsDialogOpen(open) ==
    /\ route.path = "/students"
    /\ studentsPage.isDialogOpen # open
    /\ studentsPage' = [studentsPage EXCEPT !.isDialogOpen = open]
    /\ UNCHANGED <<db_students, db_parents, db_subjects, db_payments,
                   db_grades, request, route, dashboard, paymentsPage,
                   studentDetail, gradesPage, toast>>

StudentsSetFormData(f) ==
    /\ route.path = "/students"
    /\ studentsPage.isDialogOpen
    /\ f # studentsPage.formData
    /\ studentsPage' = [studentsPage EXCEPT !.formData = f]
    /\ UNCHANGED <<db_students, db_parents, db_subjects, db_payments,
                   db_grades, request, route, dashboard, paymentsPage,
                   studentDetail, gradesPage, toast>>
\* A handler that closes its dialog once the student row is in, whatever
\* becomes of the parent row.
StudentsHandleSubmit_ClosesOnStudent(id, user, studentError, parentError) ==
    /\ route.path = "/students"
    /\ studentsPage.isDialogOpen
    /\ id \in StudentIds /\ ~HasStudent(id)
    /\ LET formData == studentsPage.formData
           validated == studentSchema(formData)
           student == InsertStudent(AuthRole(user),
                          StudentRow(id,
                                     [first_name |-> formData.firstName,
                                      last_name |-> formData.lastName,
                                      id_number |-> formData.idNumber,
                                      grade_level |-> formData.gradeLevel],
                                     formData.totalTuition.hundredths))
           parent == InsertParent(AuthRole(user), [student_id |-> id], student.rows)
       IN  IF ~validated.success
           THEN /\ toast' = validated.errors[1]
                /\ UNCHANGED <<db_students, db_parents, studentsPage>>
           ELSE IF ~user \/ studentError \/ student.error
           THEN /\ toast' = IF user THEN "error" ELSE "Not authenticated"
                /\ UNCHANGED <<db_students, db_parents, studentsPage>>
           ELSE IF parentError \/ parent.error
           THEN /\ db_students' = student.rows
                /\ toast' = "error"
                /\ studentsPage' = [studentsPage EXCEPT !.isDialogOpen = FALSE,
                                                        !.formData = EmptyStudentForm,
                                                        !.inFlight = TRUE]
                /\ UNCHANGED db_parents
           ELSE /\ db_students' = student.rows
                /\ db_parents' = parent.rows
                /\ toast' = "success"
                /\ studentsPage' = [studentsPage EXCEPT !.isDialogOpen = FALSE,
                                                        !.formData = EmptyStudentForm,
                                                        !.inFlight = TRUE]
    /\ UNCHANGED <<db_subjects, db_payments, db_grades, request, route,
                   dashboard, paymentsPage, studentDetail, gradesPage>>

\* id is the gen_random_uuid() of the new students row; studentError and
\* parentError are failures of the two inserts for other reasons than the
\* policies and keys of the store.
StudentsHandleSubmit(id, user, studentError, parentError) ==
    /\ route.path = "/students"
    /\ studentsPage.isDialogOpen
    /\ id \in StudentIds /\ ~HasStudent(id)
    /\ LET formData == studentsPage.formData
           validated == studentSchema(formData)
           student == InsertStudent(AuthRole(user),
                          StudentRow(id,
                                     [first_name |-> formData.firstName,
                                      last_name |-> formData.lastName,
                                      id_number |-> formData.idNumber,
                                      grade_level |-> formData.gradeLevel],
                                     formData.totalTuition.hundredths))
           parent == InsertParent(AuthRole(user), [student_id |-> id], student.rows)
       IN  IF ~validated.success
           THEN /\ toast' = validated.errors[1]
                /\ UNCHANGED <<db_students, db_parents, studentsPage>>
           ELSE IF ~user \/ studentError \/ student.error
           THEN /\ toast' = IF user THEN "error" ELSE "Not authenticated"
                /\ UNCHANGED <<db_students, db_parents, studentsPage>>
           ELSE IF parentError \/ parent.error
           THEN /\ db_students' = student.rows
                /\ toast' = "error"
                /\ UNCHANGED <<db_parents, studentsPage>>
           ELSE /\ db_students' = student.rows
                /\ db_parents' = parent.rows
                /\ toast' = "success"
                /\ studentsPage' = [studentsPage EXCEPT !.isDialogOpen = FALSE,
                                                        !.formData = EmptyStudentForm,
                                                        !.inFlight = TRUE]
    /\ UNCHANGED <<db_subjects, db_payments, db_grades, request, route,
                   dashboard, paymentsPage, studentDetail, gradesPage>>

(***************************************************************************)
(* Requests made to the store directly, by any client holding the public   *)
(* key of the project: select, insert, update and delete on the five       *)
(* tables, under the policies and constraints of the migration.            *)
(***************************************************************************)
Tables == {"students", "parents", "subjects", "payments", "grades"}

Table(name) ==
    CASE name = "students" -> db_students
      [] name = "parents" -> db_parents
      [] name = "subjects" -> db_subjects
      [] name = "payments" -> db_payments
      [] name = "grades" -> db_grades

\* The rows the clients send.
RowsFor(name) ==
    CASE name = "students" ->
           { StudentRow(i, TextColumns[i], t) : i \in StudentIds, t \in Tuitions }
      [] name = "parents" -> { [student_id |-> i] : i \in StudentIds }
      [] name = "subjects" -> { [id |-> j] : j \in SubjectIds }
      [] name = "payments" ->
           { [student_id |-> i, amount |-> 8, payment_date |-> 1] : i \in StudentIds }
      [] name = "grades" ->
           { [student_id |-> i, subject_id |-> "math", grade |-> 7000, created_at |-> 1] :
               i \in StudentIds }

Without(rows, i) == [k \in 1..(Len(rows) - 1) |-> IF k < i THEN rows[k] ELSE rows[k + 1]]

\* A reference that lets the rows of a deleted parent row stay.
OnDeleteCascade_RowsKept(rows, column, id) == SelectSeq(rows, LAMBDA r : r[column] \in {id, r[column]})

\* REFERENCES ... ON DELETE CASCADE: the rows that go with the row deleted.
OnDeleteCascade(rows, column, id) == SelectSeq(rows, LAMBDA r : r[column] # id)

\* insert into subjects: id is the primary key.
InsertSubject(role, row) ==
    Outcome(Policy(role) /\ ~HasSubject(row.id), db_subjects, Append(db_subjects, row))

Requested(role, command, table, error, data) ==
    [role |-> role, command |-> command, table |-> table, error |-> error,
     data |-> IF error THEN <<>> ELSE data]

StoreSelect(role, table) ==
    /\ request' = Requested(role, "select", table, FALSE, SelectFrom(role, Table(table)))
    /\ UNCHANGED <<db_students, db_parents, db_subjects, db_payments, db_grades,
                   route, dashboard, studentsPage, paymentsPage, studentDetail,
                   gradesPage, toast>>

StoreInsert(role, table, row) ==
    /\ row \in RowsFor(table)
    /\ table \in {"parents", "payments", "grades"} =>
          Len(db_parents) + Len(db_payments) + Len(db_grades) < MaxRows
    /\ LET inserted ==
             CASE table = "students" -> InsertStudent(role, row)
               [] table = "parents" -> InsertParent(role, row, db_students)
               [] table = "subjects" -> InsertSubject(role, row)
               [] table = "payments" -> InsertPayment(role, row)
               [] table = "grades" -> InsertGrade(role, row)
       IN  /\ request' = Requested(role, "insert", table, inserted.error, <<row>>)
           /\ db_students' = IF table = "students" THEN inserted.rows ELSE db_students
           /\ db_parents' = IF table = "parents" THEN inserted.rows ELSE db_parents
           /\ db_subjects' = IF table = "subjects" THEN inserted.rows ELSE db_subjects
           /\ db_payments' = IF table = "payments" THEN inserted.rows ELSE db_payments
           /\ db_grades' = IF table = "grades" THEN inserted.rows ELSE db_grades
    /\ UNCHANGED <<route, dashboard, studentsPage, paymentsPage, studentDetail,
                   gradesPage, toast>>

\* update ... set (all columns but the primary key) where id = the id of
\* row i.  A row the policy hides is not updated, and that is no error.
StoreUpdate(role, table, i, row) ==
    /\ i \in DOMAIN Table(table)
    /\ row \in RowsFor(table)
    /\ row # Table(table)[i]
    /\ table \in {"students", "subjects"} => row.id = Table(table)[i].id
    /\ LET others == Without(Table(table), i)
           references ==
             /\ table \in {"parents", "payments", "grades"} => HasStudent(row.student_id)
             /\ table = "grades" =>
                   /\ HasSubject(row.subject_id)
                   /\ \A k \in DOMAIN others : ~SameGradeKey(others[k], row)
           updated == [Table(table) EXCEPT ![i] = row]
           done == Policy(role) /\ references
           After(name, rows) == IF done /\ table = name THEN updated ELSE rows
       IN  /\ request' = Requested(role, "update", table,
                                    Policy(role) /\ ~references,
                                    IF Policy(role) THEN <<row>> ELSE <<>>)
           /\ db_students' = After("students", db_students)
           /\ db_parents' = After("parents", db_parents)
           /\ db_subjects' = After("subjects", db_subjects)
           /\ db_payments' = After("payments", db_payments)
           /\ db_grades' = After("grades", db_grades)
    /\ UNCHANGED <<route, dashboard, studentsPage, paymentsPage, studentDetail,
                   gradesPage, toast>>

\* delete ... where id = the id of row i, with the cascades of the
\* references.  A row the policy hides is not deleted, and that is no error.
StoreDelete(role, table, i) ==
    /\ i \in DOMAIN Table(table)
    /\ LET gone == Table(table)[i]
           done == Policy(role)
           After(name, rows) ==
              IF ~done THEN rows
              ELSE IF table = name THEN Without(rows, i)
              ELSE IF table = "students" /\ name \in {"parents", "payments", "grades"}
                   THEN OnDeleteCascade(rows, "student_id", gone.id)
              ELSE IF table = "subjects" /\ name = "grades"
                   THEN OnDeleteCascade(rows, "subject_id", gone.id)
              ELSE rows
       IN  /\ request' = Requested(role, "delete", table, FALSE,
                                    IF done THEN <<gone>> ELSE <<>>)
           /\ db_students' = After("students", db_students)
           /\ db_parents' = After("parents", db_parents)
           /\ db_subjects' = After("subjects", db_subjects)
           /\ db_payments' = After("payments", db_payments)
           /\ db_grades' = After("grades", db_grades)
    /\ UNCHANGED <<route, dashboard, studentsPage, paymentsPage, studentDetail,
                   gradesPage, toast>>

(***************************************************************************)
(* Specifications.  Spec records payments and shows them on the three      *)
(* pages; SpecGrades records grades and shows the dashboard average.       *)
(***************************************************************************)
Loads ==
    \/ \E r \in Routes : Navigate(r)
    \/ \E c, s, p, g \in BOOLEAN : loadStats(c, s, p, g)
    \/ \E s, p \in BOOLEAN : PaymentsLoadData(s, p)
    \/ \E s, q, p, g \in BOOLEAN :
         \E ordered \in OrderByDateDesc(
                          Filter(db_payments, LAMBDA pm : pm.student_id = route.id)) :
            loadStudentData(s, q, p, g, ordered)
    \/ \E s \in BOOLEAN : loadStudents(s)
    \/ \E s, j, g \in BOOLEAN : GradesLoadData(s, j, g)

Next ==
    \/ Loads
    \/ \E open \in BOOLEAN : PaymentsSetIsDialogOpen(open)
    \/ \E f \in PaymentForms : PaymentsSetFormData(f)
    \/ \E user, insertError \in BOOLEAN : PaymentsHandleSubmit(user, insertError)

Spec == Init /\ [][Next]_vars

NextGrades ==
    \/ Loads
    \/ \E open \in BOOLEAN : GradesSetIsDialogOpen(open)
    \/ \E f \in GradeForms : GradesSetFormData(f)
    \/ \E user, insertError \in BOOLEAN, now \in Timestamps :
         GradesHandleSubmit(user, insertError, now)

SpecGrades == Init /\ [][NextGrades]_vars

\* SpecStudents registers students, from the store as the migration leaves
\* it.
InitMigrated ==
    /\ db_students = <<>>
    /\ db_parents = <<>>
    /\ db_subjects = SeededSubjects
    /\ db_payments = <<>>
    /\ db_grades = <<>>
    /\ request = NoRequest
    /\ route = [path |-> "/auth", id |-> "none"]
    /\ dashboard = DashboardMounted
    /\ studentsPage = StudentsMounted
    /\ paymentsPage = PaymentsMounted
    /\ studentDetail = StudentDetailMounted
    /\ gradesPage = GradesMounted
    /\ toast = "none"

NextStudents ==
    \/ Loads
    \/ \E open \in BOOLEAN : StudentsSetIsDialogOpen(open)
    \/ \E f \in StudentForms : StudentsSetFormData(f)
    \/ \E id \in StudentIds, user, studentError, parentError \in BOOLEAN :
         StudentsHandleSubmit(id, user, studentError, parentError)

SpecStudents == InitMigrated /\ [][NextStudents]_vars

\* SpecSignedOut is the three forms submitted after the session has ended:
\* getUser() gives no user.
NextSignedOut ==
    \/ Loads
    \/ \E open \in BOOLEAN : PaymentsSetIsDialogOpen(open)
    \/ \E f \in PaymentForms : PaymentsSetFormData(f)
    \/ \E insertError \in BOOLEAN : PaymentsHandleSubmit(FALSE, insertError)
    \/ \E open \in BOOLEAN : GradesSetIsDialogOpen(open)
    \/ \E f \in GradeForms : GradesSetFormData(f)
    \/ \E insertError \in BOOLEAN, now \in Timestamps :
         GradesHandleSubmit(FALSE, insertError, now)
    \/ \E open \in BOOLEAN : StudentsSetIsDialogOpen(open)
    \/ \E f \in StudentForms : StudentsSetFormData(f)
    \/ \E id \in StudentIds, studentError, parentError \in BOOLEAN :
         StudentsHandleSubmit(id, FALSE, studentError, parentError)

SpecSignedOut == (Init \/ InitMigrated) /\ [][NextSignedOut]_vars

\* SpecFilter is the payments list read and filtered, over a store that
\* earlier sessions have recorded payments in.
PaymentRows ==
    { [student_id |-> f.studentId, amount |-> f.amount, payment_date |-> f.paymentDate] :
        f \in PaymentForms }

PaymentTables ==
    {<<>>} \cup { <<a>> : a \in PaymentRows }
           \cup { <<a, b>> : a \in PaymentRows, b \in PaymentRows }

InitRecorded ==
    /\ db_students \in StudentTables
    /\ db_parents = ParentsOf(db_students)
    /\ db_subjects = SeededSubjects
    /\ db_payments \in PaymentTables
    /\ db_grades = <<>>
    /\ request = NoRequest
    /\ route = [path |-> "/auth", id |-> "none"]
    /\ dashboard = DashboardMounted
    /\ studentsPage = StudentsMounted
    /\ paymentsPage = PaymentsMounted
    /\ studentDetail = StudentDetailMounted
    /\ gradesPage = GradesMounted
    /\ toast = "none"

NextFilter ==
    \/ Loads
    \/ \E status \in StatusFilters : PaymentsSetFilterStatus(status)

SpecFilter == InitRecorded /\ [][NextFilter]_vars

\* SpecSearch is the students list read and searched, over the students
\* that earlier sessions have registered.
RegisteredTables ==
    LET first == { StudentRow("s1", [TextColumns["s1"] EXCEPT !.first_name = f,
                                                              !.grade_level = g], 10) :
                     f \in {<<"A", "n", "a">>, <<"D", "A", "N">>},
                     g \in {<<"5">>, <<"6", "a">>} }
        second == StudentRow("s2", TextColumns["s2"], 10)
    IN  {<<>>} \cup { <<a>> : a \in first } \cup { <<a, second>> : a \in first }

InitRegistered ==
    /\ db_students \in RegisteredTables
    /\ db_parents = ParentsOf(db_students)
    /\ db_subjects = SeededSubjects
    /\ db_payments = <<>>
    /\ db_grades = <<>>
    /\ request = NoRequest
    /\ route = [path |-> "/auth", id |-> "none"]
    /\ dashboard = DashboardMounted
    /\ studentsPage = StudentsMounted
    /\ paymentsPage = PaymentsMounted
    /\ studentDetail = StudentDetailMounted
    /\ gradesPage = GradesMounted
    /\ toast = "none"

NextSearch ==
    \/ Loads
    \/ \E term \in SearchTerms : StudentsSetSearchTerm(term)

SpecSearch == InitRegistered /\ [][NextSearch]_vars

\* SpecForms is the three pages with a form, each from its mount: the
\* payments and grades pages over registered students, the students page
\* over the store as the migration leaves it.
InitForms ==
    /\ \/ /\ db_students \in StudentTables
          /\ route \in { [path |-> p, id |-> "none"] : p \in {"/payments", "/grades"} }
       \/ /\ db_students = <<>>
          /\ route = [path |-> "/students", id |-> "none"]
    /\ db_parents = ParentsOf(db_students)
    /\ db_subjects = SeededSubjects
    /\ db_payments = <<>>
    /\ db_grades = <<>>
    /\ request = NoRequest
    /\ dashboard = DashboardMounted
    /\ studentsPage = StudentsMounted
    /\ paymentsPage = PaymentsMounted
    /\ studentDetail = StudentDetailMounted
    /\ gradesPage = GradesMounted
    /\ toast = "none"

NextForms ==
    \/ \E s, p \in BOOLEAN : PaymentsLoadData(s, p)
    \/ \E open \in BOOLEAN : PaymentsSetIsDialogOpen(open)
    \/ \E f \in PaymentForms : PaymentsSetFormData(f)
    \/ \E user, insertError \in BOOLEAN : PaymentsHandleSubmit(user, insertError)
    \/ \E s, j, g \in BOOLEAN : GradesLoadData(s, j, g)
    \/ \E open \in BOOLEAN : GradesSetIsDialogOpen(open)
    \/ \E f \in GradeForms : GradesSetFormData(f)
    \/ \E user, insertError \in BOOLEAN, now \in Timestamps :
         GradesHandleSubmit(user, insertError, now)
    \/ \E s \in BOOLEAN : loadStudents(s)
    \/ \E open \in BOOLEAN : StudentsSetIsDialogOpen(open)
    \/ \E f \in StudentForms : StudentsSetFormData(f)
    \/ \E id \in StudentIds, user, studentError, parentError \in BOOLEAN :
         StudentsHandleSubmit(id, user, studentError, parentError)

SpecForms == InitForms /\ [][NextForms]_vars

\* SpecInFlight is the payments page with the two awaits of loadData taken
\* apart: the store answers a call at one time, the answers arrive at
\* another, and the answers of two calls arrive in either order.
NextInFlight ==
    \/ \E r \in Routes : Navigate(r)
    \/ \E k \in 1..(MaxPayments + 1), s, p \in BOOLEAN : PaymentsLoadDataServed(k, s, p)
    \/ \E k \in 1..(MaxPayments + 1) : PaymentsLoadDataReceived(k)
    \/ \E open \in BOOLEAN : PaymentsSetIsDialogOpen(open)
    \/ \E f \in { g \in PaymentForms : g.studentId = "s2" } : PaymentsSetFormData(f)
    \/ \E user, insertError \in BOOLEAN : PaymentsHandleSubmit(user, insertError)

SpecInFlight == Init /\ [][NextInFlight]_vars

\* SpecLive is the five pages loading and the three forms submitting (one
\* payment form, one grade form, one registration form), from the store with
\* two students or with none, and with every request answered in the end, by
\* rows or by an error: a load that can finish does finish. The fairness
\* conditions name the answer by an error first, the instance that is
\* enabled whenever the load is.
NextLive ==
    \/ Loads
    \/ \E open \in BOOLEAN : PaymentsSetIsDialogOpen(open)
    \/ \E f \in { g \in PaymentForms : g.studentId = "s2" } : PaymentsSetFormData(f)
    \/ \E user, insertError \in BOOLEAN : PaymentsHandleSubmit(user, insertError)
    \/ \E open \in BOOLEAN : GradesSetIsDialogOpen(open)
    \/ \E f \in { g \in GradeForms : g.grade = 0 } : GradesSetFormData(f)
    \/ \E user, insertError \in BOOLEAN, now \in Timestamps :
         GradesHandleSubmit(user, insertError, now)
    \/ \E open \in BOOLEAN : StudentsSetIsDialogOpen(open)
    \/ StudentsSetFormData(FilledStudentForm)
    \/ \E id \in StudentIds, user, studentError, parentError \in BOOLEAN :
         StudentsHandleSubmit(id, user, studentError, parentError)

Fairness ==
    /\ WF_vars(\E c, s, p, g \in BOOLEAN : loadStats(~c, ~s, ~p, ~g))
    /\ WF_vars(\E s, p \in BOOLEAN : PaymentsLoadData(~s, ~p))
    /\ WF_vars(\E s, j, g \in BOOLEAN : GradesLoadData(~s, ~j, ~g))
    /\ WF_vars(\E s \in BOOLEAN : loadStudents(~s))
    /\ WF_vars(\E s, q, p, g \in BOOLEAN :
                 \E ordered \in OrderByDateDesc(
                                  Filter(db_payments, LAMBDA pm : pm.student_id = route.id)) :
                    loadStudentData(~s, ~q, ~p, ~g, ordered))

SpecLive == (Init \/ InitMigrated) /\ [][NextLive]_vars /\ Fairness

\* SpecStore is the store under the requests of its clients.
NextStore ==
    \/ \E role \in Roles, table \in Tables : StoreSelect(role, table)
    \/ \E role \in Roles, table \in Tables : \E row \in RowsFor(table) :
         StoreInsert(role, table, row)
    \/ \E role \in Roles, table \in Tables, i \in 1..MaxRows : \E row \in RowsFor(table) :
         StoreUpdate(role, table, i, row)
    \/ \E role \in Roles, table \in Tables, i \in 1..MaxRows :
         StoreDelete(role, table, i)

SpecStore == Init /\ [][NextStore]_vars
(***************************************************************************)
(* What the pages show, and the exact decimal arithmetic the contract is   *)
(* stated in.                                                              *)
(***************************************************************************)
\* The exact sum of the amounts, in hundredths.
SumCents(payments) == Reduce(LAMBDA acc, pm : acc + pm.amount, 0, payments)

PaymentsOf(payments, id) == Filter(payments, LAMBDA pm : pm.student_id = id)

\* The payments list is on screen.
ListShown == route.path = "/payments" /\ ~paymentsPage.loading

ListRows == { paymentsPage.studentsWithPayments[i] :
                i \in DOMAIN paymentsPage.studentsWithPayments }

\* The payments of a listed student among those the page has loaded.
ListPaymentsOf(row) == PaymentsOf(paymentsPage.payments, row.id)

\* The payment summary of the detail page is on screen.
DetailShown ==
    route.path = "/student" /\ ~studentDetail.loading /\ studentDetail.student # <<>>

DetailStudent == studentDetail.student[1]

\* The dashboard cards are on screen.
DashboardShown == route.path = "/dashboard" /\ ~dashboard.loading

(***************************************************************************)
(* C1.  Whenever the payments of a student sum to at least the total       *)
(* tuition (exact payment or overpayment), the status is Paid, in the      *)
(* payments list and in the detail view.                                   *)
(***************************************************************************)
C1_PaidWhenTuitionCovered ==
    /\ ListShown =>
         \A row \in ListRows :
            SumCents(ListPaymentsOf(row)) >= row.total_tuition => row.status = "Paid"
    /\ DetailShown =>
         (SumCents(studentDetail.payments) >= DetailStudent.total_tuition
            => DetailPaymentStatus(DetailStudent, studentDetail.payments) = "Paid")

(***************************************************************************)
(* C2.  The status is Partial Payment exactly when the payments sum to     *)
(* strictly more than 0 and strictly less than the total tuition.          *)
(***************************************************************************)
C2_PartialIffStrictlyBetween ==
    /\ ListShown =>
         \A row \in ListRows :
            row.status = "Partial Payment"
              <=> /\ 0 < SumCents(ListPaymentsOf(row))
                  /\ SumCents(ListPaymentsOf(row)) < row.total_tuition
    /\ DetailShown =>
         (DetailPaymentStatus(DetailStudent, studentDetail.payments) = "Partial Payment"
            <=> /\ 0 < SumCents(studentDetail.payments)
                /\ SumCents(studentDetail.payments) < DetailStudent.total_tuition)

(***************************************************************************)
(* C3.  Payments summing to 0 or less give the status Unpaid.  Stated for  *)
(* the students who owe a tuition above 0: for a tuition of 0 the          *)
(* classification order of the contract itself puts Paid first.            *)
(***************************************************************************)
C3_UnpaidWhenSumNotPositive ==
    /\ ListShown =>
         \A row \in ListRows :
            (row.total_tuition > 0 /\ SumCents(ListPaymentsOf(row)) <= 0)
              => row.status = "Unpaid"
    /\ DetailShown =>
         ((DetailStudent.total_tuition > 0 /\ SumCents(studentDetail.payments) <= 0)
            => DetailPaymentStatus(DetailStudent, studentDetail.payments) = "Unpaid")

(***************************************************************************)
(* C4.  A student without payments has totalPaid 0 in every view and is    *)
(* Unpaid, unless the total tuition is 0, and then Paid; the dashboard     *)
(* counts the student as pending exactly in the first case.                *)
(***************************************************************************)
StatusWithoutPayments(total_tuition) == IF total_tuition = 0 THEN "Paid" ELSE "Unpaid"

C4_NoPayments ==
    /\ ListShown =>
         \A row \in ListRows :
            ListPaymentsOf(row) = <<>> =>
               /\ row.totalPaid = Zero
               /\ row.status = StatusWithoutPayments(row.total_tuition)
    /\ (DetailShown /\ studentDetail.payments = <<>>) =>
         /\ DetailTotalPaid(studentDetail.payments) = Zero
         /\ DetailPaymentStatus(DetailStudent, studentDetail.payments)
              = StatusWithoutPayments(DetailStudent.total_tuition)
    /\ (DashboardShown /\ dashboard.payments.data = <<>>) =>
         /\ dashboard.stats.totalPayments = Zero
         /\ dashboard.stats.pendingPayments =
              Cardinality({ i \in DOMAIN dashboard.students.data :
                              dashboard.students.data[i].total_tuition # 0 })

C4_Witness ==
    /\ ListShown
    /\ \E row \in ListRows :
          ListPaymentsOf(row) = <<>> /\ row.total_tuition = 0 /\ row.status = "Paid"
    /\ \E row \in ListRows :
          ListPaymentsOf(row) = <<>> /\ row.total_tuition > 0 /\ row.status = "Unpaid"

(***************************************************************************)
(* C5.  totalPaid is the arithmetic sum of the payment amounts of the      *)
(* student (the number that stands for that decimal sum), 0 without        *)
(* payments.                                                               *)
(***************************************************************************)
C5_TotalPaidIsSum ==
    /\ ListShown =>
         \A row \in ListRows : row.totalPaid = Number(SumCents(ListPaymentsOf(row)))
    /\ DetailShown =>
         DetailTotalPaid(studentDetail.payments) = Number(SumCents(studentDetail.payments))

(***************************************************************************)
(* C6.  balance is totalTuition - totalPaid, unclamped: 0 when the         *)
(* payments sum to exactly the tuition, negative when they sum to more,    *)
(* in the list and in the detail view.                                     *)
(***************************************************************************)
BalanceAsClaimed(balance, total_tuition, totalPaid, payments) ==
    /\ balance = Minus(Number(total_tuition), totalPaid)
    /\ SumCents(payments) = total_tuition => balance = Zero
    /\ SumCents(payments) > total_tuition => Less(balance, Zero)

C6_BalanceUnclamped ==
    /\ ListShown =>
         \A row \in ListRows :
            BalanceAsClaimed(BalanceCell(row), row.total_tuition, row.totalPaid,
                             ListPaymentsOf(row))
    /\ DetailShown =>
         BalanceAsClaimed(DetailBalance(DetailStudent, studentDetail.payments),
                          DetailStudent.total_tuition,
                          DetailTotalPaid(studentDetail.payments),
                          studentDetail.payments)
(***************************************************************************)
(* C7.  The pending count of the dashboard is the number of students       *)
(* whose own balance, computed as the payments list computes it from the   *)
(* same students and payments, is above 0; these are the students whose    *)
(* status is Partial Payment or Unpaid, so that pending + paid = all.      *)
(***************************************************************************)
DashboardRows ==
    LET rows == calculatePaymentStatus(dashboard.students.data, dashboard.payments.data)
    IN  { <<i, rows[i]>> : i \in DOMAIN rows }

C7_PendingCount ==
    DashboardShown =>
       LET owing == { ir \in DashboardRows : Less(Zero, BalanceCell(ir[2])) }
           notPaid == { ir \in DashboardRows :
                          ir[2].status \in {"Partial Payment", "Unpaid"} }
           paid == { ir \in DashboardRows : ir[2].status = "Paid" }
       IN  /\ dashboard.stats.pendingPayments = Cardinality(owing)
           /\ owing = notPaid
           /\ dashboard.stats.pendingPayments + Cardinality(paid)
                = Len(dashboard.students.data)

C7_Witness ==
    /\ DashboardShown
    /\ dashboard.stats.pendingPayments = 1
    /\ \E ir \in DashboardRows :
          ir[2].status = "Paid" /\ PaymentsOf(dashboard.payments.data, ir[2].id) # <<>>
    /\ \E ir \in DashboardRows : ir[2].status = "Partial Payment"

(***************************************************************************)
(* C8.  Payments are grouped by student id with exact equality: the        *)
(* totalPaid (and the status, and the pending count) of a student comes    *)
(* from exactly the payments carrying that student_id, and a reload that   *)
(* brings payments of other students leaves the student's row as it was.   *)
(***************************************************************************)
OwnTotal(payments, id) == DetailTotalPaid(PaymentsOf(payments, id))

C8_Grouped ==
    /\ ListShown =>
         \A row \in ListRows :
            /\ row.totalPaid = OwnTotal(paymentsPage.payments, row.id)
            /\ row.status = PaymentStatus(OwnTotal(paymentsPage.payments, row.id),
                                          Number(row.total_tuition))
    /\ DashboardShown =>
         dashboard.stats.pendingPayments =
            Cardinality({ i \in DOMAIN dashboard.students.data :
               Less(OwnTotal(dashboard.payments.data, dashboard.students.data[i].id),
                    Number(dashboard.students.data[i].total_tuition)) })

C8_OthersUntouched ==
    (ListShown /\ ListShown') =>
       \A row \in ListRows :
          \A after \in ListRows' :
             ( /\ after.id = row.id
               /\ after.total_tuition = row.total_tuition
               /\ PaymentsOf(paymentsPage.payments', row.id)
                    = PaymentsOf(paymentsPage.payments, row.id) )
             => after = row

C8_GroupedByStudent == [](C8_Grouped) /\ [][C8_OthersUntouched]_vars

C8_Witness ==
    /\ ListShown
    /\ \E r1, r2 \in ListRows :
          /\ r1.id # r2.id
          /\ Len(ListPaymentsOf(r1)) >= 2
          /\ ListPaymentsOf(r2) # <<>>
          /\ r1.totalPaid # r2.totalPaid
          /\ r1.status # r2.status

(***************************************************************************)
(* C9.  For the same student and the same payments the three call sites    *)
(* agree: the status of the payments list is the status the detail view    *)
(* derives from those payments (which it receives by payment date, latest  *)
(* first), and the dashboard counts the student as pending exactly when    *)
(* that status is not Paid.                                                *)
(***************************************************************************)
C9_CallSitesAgree ==
    ListShown =>
       \A row \in ListRows :
          /\ \A ordered \in OrderByDateDesc(ListPaymentsOf(row)) :
                DetailPaymentStatus(row, ordered) = row.status
          /\ IsPending(row, GroupByStudent(paymentsPage.payments))
                <=> row.status # "Paid"

(***************************************************************************)
(* C10.  The average of no grades is a sentinel and never zero: what the   *)
(* dashboard stores for no grades is not the number 0, and it shows        *)
(* "N/A" only then, never for grades whose mean is 0.                      *)
(***************************************************************************)
C10_NoGradesIsNotZero ==
    (DashboardShown /\ ~dashboard.grades.error) =>
       /\ dashboard.grades.data = <<>> => dashboard.stats.averageGrade # Zero
       /\ dashboard.grades.data # <<>> =>
             AverageGradeCard(dashboard.stats).text # "N/A"

(***************************************************************************)
(* C11.  The average grade the dashboard stores for a non-empty grades     *)
(* table is the arithmetic mean rounded to one decimal place, halves       *)
(* rounded away from zero, for negative means and exact .x5 ties too.      *)
(***************************************************************************)
SumGradeCents(grades) == Reduce(LAMBDA acc, g : acc + g.grade, 0, grades)

\* The mean of n grades summing to s hundredths, in tenths, halves away
\* from zero.
HalfAwayTenths(s, n) ==
    LET q == (2 * Abs(s) + 10 * n) \div (20 * n)
    IN  IF s < 0 THEN -q ELSE q

C11_AverageHalfAwayFromZero ==
    (DashboardShown /\ ~dashboard.grades.error /\ dashboard.grades.data # <<>>) =>
       dashboard.stats.averageGrade =
          Number(10 * HalfAwayTenths(SumGradeCents(dashboard.grades.data),
                                     Len(dashboard.grades.data)))

(***************************************************************************)
(* C12.  The derived list of the Payments page is never out of step with   *)
(* its inputs: in every state between two handlers it is the               *)
(* classification of the students and payments the page holds, so it was   *)
(* recomputed whenever a load replaced them.                               *)
(***************************************************************************)
C12_DerivedListRecomputed ==
    route.path = "/payments" =>
       paymentsPage.studentsWithPayments =
          calculatePaymentStatus(paymentsPage.students, paymentsPage.payments)

C12_Witness ==
    /\ ListShown
    /\ Len(paymentsPage.payments) >= 2
    /\ paymentsPage.payments = db_payments
    /\ \E row \in ListRows : row.total_tuition > 0 /\ row.status = "Paid"

(***************************************************************************)
(* C13.  A fetch that fails while a page loads its data is shown to the    *)
(* user as a notification, on every page, and leaves the data the page     *)
(* had already loaded as it was.                                           *)
(***************************************************************************)
C13_LoadFailed ==
    \/ \E c, s, p, g \in BOOLEAN : (c \/ s \/ p \/ g) /\ loadStats(c, s, p, g)
    \/ \E s, p \in BOOLEAN : (s \/ p) /\ PaymentsLoadData(s, p)
    \/ \E s, j, g \in BOOLEAN : (s \/ j \/ g) /\ GradesLoadData(s, j, g)
    \/ \E s, q, p, g \in BOOLEAN :
         \E ordered \in OrderByDateDesc(
                          Filter(db_payments, LAMBDA pm : pm.student_id = route.id)) :
            (s \/ q \/ p \/ g) /\ loadStudentData(s, q, p, g, ordered)
    \/ loadStudents(TRUE)

C13_LoadedDataKept ==
    /\ paymentsPage'.students = paymentsPage.students
    /\ paymentsPage'.payments = paymentsPage.payments
    /\ paymentsPage'.studentsWithPayments = paymentsPage.studentsWithPayments
    /\ gradesPage'.students = gradesPage.students
    /\ gradesPage'.grades = gradesPage.grades
    /\ studentsPage'.students = studentsPage.students

C13_FetchFailureNotified ==
    [][C13_LoadFailed => (toast' = "error" /\ C13_LoadedDataKept)]_vars

(***************************************************************************)
(* C14.  A payment with a negative amount (a refund) is recorded, not      *)
(* rejected, and counts arithmetically: the total paid shown for the       *)
(* student is lower and the balance shown higher by its magnitude, and     *)
(* the status can go back from Paid to Partial Payment or Unpaid.          *)
(***************************************************************************)
Shown(x) == LET f == ToFixed2(x) IN IF f.neg THEN -f.hundredths ELSE f.hundredths

Front(seq) == SubSeq(seq, 1, Len(seq) - 1)

IsRefund(payments) == payments # <<>> /\ payments[Len(payments)].amount < 0

\* A signed-in user submits a refund for an existing student and the store
\* raises no error.
C14_RefundSubmitted ==
    /\ paymentsPage.formData.amount < 0
    /\ \E i \in DOMAIN db_students : db_students[i].id = paymentsPage.formData.studentId
    /\ PaymentsHandleSubmit(TRUE, FALSE)

C14_RefundRecorded ==
    /\ db_payments' = Append(db_payments,
                         [student_id |-> paymentsPage.formData.studentId,
                          amount |-> paymentsPage.formData.amount,
                          payment_date |-> paymentsPage.formData.paymentDate])
    /\ toast' = "success"

C14_RefundCounted ==
    ListShown =>
       \A row \in ListRows :
          LET payments == ListPaymentsOf(row)
              refund == payments[Len(payments)].amount
          IN  IsRefund(payments) =>
                /\ Less(row.totalPaid, OwnTotal(Front(payments), row.id))
                /\ Shown(row.totalPaid) = SumCents(Front(payments)) + refund
                /\ Shown(BalanceCell(row))
                     = (row.total_tuition - SumCents(Front(payments))) - refund

C15_StoredTuitions ==
    \A i \in DOMAIN db_students : db_students[i].total_tuition >= 0

C15_Submitted ==
    \E id \in StudentIds, user, studentError, parentError \in BOOLEAN :
       StudentsHandleSubmit(id, user, studentError, parentError)

C15_ValidationMessages ==
    { "First name must be at least 2 characters",
      "Last name must be at least 2 characters",
      "ID number must be at least 5 characters",
      "Date of birth is required",
      "Grade level is required",
      "Tuition must be positive",
      "Expected number, received nan",
      "Parent name must be at least 2 characters",
      "Parent ID must be at least 5 characters",
      "Phone must be at least 10 characters" }

C15_Rejected ==
    LET tuition == studentsPage.formData.totalTuition
    IN  (C15_Submitted /\ (tuition.nan \/ tuition.hundredths < 0)) =>
           /\ UNCHANGED <<db_students, db_parents>>
           /\ toast' \in C15_ValidationMessages
           /\ studentsPage.formData = [FilledStudentForm EXCEPT !.totalTuition = tuition]
                => toast' = IF tuition.nan THEN "Expected number, received nan"
                            ELSE "Tuition must be positive"

C15_TuitionValidated == [](C15_StoredTuitions) /\ [][C15_Rejected]_vars

C15_Witness ==
    /\ route.path = "/students"
    /\ db_students # <<>>
    /\ studentsPage.formData.totalTuition = Hundredths(-1)
    /\ toast = "Tuition must be positive"

(***************************************************************************)
(* C16.  The summary depends on the total tuition and on the payment       *)
(* amounts only, not on the order in which the store returns the           *)
(* payments: any reordering of the loaded payments gives the same total    *)
(* paid, balance and status, in the list and in the detail view.           *)
(***************************************************************************)
Orderings(rows) ==
    { [i \in DOMAIN rows |-> rows[perm[i]]] :
        perm \in { q \in [DOMAIN rows -> DOMAIN rows] :
                     \A i, j \in DOMAIN rows : i # j => q[i] # q[j] } }

C16_OrderIndependent ==
    /\ ListShown =>
         \A reordered \in Orderings(paymentsPage.payments) :
            calculatePaymentStatus(paymentsPage.students, reordered)
               = paymentsPage.studentsWithPayments
    /\ DetailShown =>
         \A reordered \in Orderings(studentDetail.payments) :
            /\ DetailTotalPaid(reordered) = DetailTotalPaid(studentDetail.payments)
            /\ DetailBalance(DetailStudent, reordered)
                 = DetailBalance(DetailStudent, studentDetail.payments)
            /\ DetailPaymentStatus(DetailStudent, reordered)
                 = DetailPaymentStatus(DetailStudent, studentDetail.payments)

(***************************************************************************)
(* C17: removing a student removes the student's payments, grades and      *)
(* parent record: at any time every payment, grade and parent row          *)
(* references a student that exists.                                       *)
(***************************************************************************)
C17_NoOrphans ==
    /\ \A k \in DOMAIN db_parents : HasStudent(db_parents[k].student_id)
    /\ \A k \in DOMAIN db_payments : HasStudent(db_payments[k].student_id)
    /\ \A k \in DOMAIN db_grades : HasStudent(db_grades[k].student_id)

\* C17 witness: a student was deleted while another student, with a parent
\* record, a payment and a grade, stays.
C17_Witness ==
    /\ request.command = "delete"
    /\ request.table = "students"
    /\ request.data # <<>>
    /\ Len(db_students) = 1
    /\ ~HasStudent(request.data[1].id)
    /\ db_parents # <<>>
    /\ db_payments # <<>>
    /\ db_grades # <<>>

(***************************************************************************)
(* C18: only authenticated callers read or write the five tables: a        *)
(* request that changes a table is made by an authenticated caller, a      *)
(* request by any other caller returns no row, and an insert by another    *)
(* caller fails; every route of a page of records is wrapped in the        *)
(* protected-route guard.                                                  *)
(***************************************************************************)
C18_TablesChanged ==
    <<db_students, db_parents, db_subjects, db_payments, db_grades>>' #
        <<db_students, db_parents, db_subjects, db_payments, db_grades>>

C18_NothingForOthers ==
    request.role # "authenticated" =>
        /\ request.data = <<>>
        /\ request.command = "insert" => request.error

C18_RoutesGuarded == \A path \in Paths : AppRoutes[path].guard = "ProtectedRoute"

C18_AuthenticatedOnly ==
    /\ [](C18_NothingForOthers /\ C18_RoutesGuarded)
    /\ [][C18_TablesChanged => request'.role = "authenticated"]_vars

\* C18 witness: a caller that is not authenticated selected from a table
\* that holds rows, and got none.
C18_Witness ==
    /\ request.role = "anon"
    /\ request.command = "select"
    /\ request.table = "payments"
    /\ db_payments # <<>>
    /\ request.data = <<>>
    /\ ~request.error


(***************************************************************************)
(* C19: no two grades share student, subject and creation time: the store  *)
(* never holds two such rows, and a grade submitted with the key of a      *)
(* stored grade is rejected, with an error shown and the table unchanged.  *)
(***************************************************************************)
C19_UniqueKeys ==
    \A i, j \in DOMAIN db_grades :
        i # j => ~SameGradeKey(db_grades[i], db_grades[j])

C19_KeyOfForm(now) ==
    [student_id |-> gradesPage.formData.studentId,
     subject_id |-> gradesPage.formData.subjectId,
     created_at |-> now]

C19_DuplicateSubmitted(now) ==
    /\ \E i \in DOMAIN db_grades : SameGradeKey(db_grades[i], C19_KeyOfForm(now))
    /\ \E user, insertError \in BOOLEAN : GradesHandleSubmit(user, insertError, now)

C19_GradeKeyUnique ==
    /\ [](C19_UniqueKeys)
    /\ [][\A now \in Timestamps :
            C19_DuplicateSubmitted(now) =>
                (db_grades' = db_grades /\ toast' \in {"error", "Not authenticated"})]_vars

\* C19 witness: a student holds two grades of one subject, recorded at two
\* times, and a third with the key of the later one was turned down.
C19_Witness ==
    /\ Len(db_grades) = 2
    /\ db_grades[1].student_id = db_grades[2].student_id
    /\ db_grades[1].subject_id = db_grades[2].subject_id
    /\ db_grades[1].created_at # db_grades[2].created_at
    /\ route.path = "/grades"
    /\ gradesPage.isDialogOpen
    /\ SameGradeKey(db_grades[2], C19_KeyOfForm(db_grades[2].created_at))
    /\ toast = "error"


(***************************************************************************)
(* C20: a payment, grade or student form submitted while no user is        *)
(* authenticated inserts nothing into any table, shows an error, and       *)
(* leaves the dialog open and the form data as they were.                  *)
(***************************************************************************)
C20_SubmittedSignedOut ==
    \/ \E insertError \in BOOLEAN : PaymentsHandleSubmit(FALSE, insertError)
    \/ \E insertError \in BOOLEAN, now \in Timestamps :
         GradesHandleSubmit(FALSE, insertError, now)
    \/ \E id \in StudentIds, studentError, parentError \in BOOLEAN :
         StudentsHandleSubmit(id, FALSE, studentError, parentError)

C20_NoInsert ==
    UNCHANGED <<db_students, db_parents, db_subjects, db_payments, db_grades>>

C20_ErrorShown == toast' \in {"Not authenticated"} \cup C15_ValidationMessages

C20_DialogKept ==
    LET page == CASE route.path = "/payments" -> paymentsPage
                  [] route.path = "/grades" -> gradesPage
                  [] route.path = "/students" -> studentsPage
        page2 == CASE route.path = "/payments" -> paymentsPage'
                   [] route.path = "/grades" -> gradesPage'
                   [] route.path = "/students" -> studentsPage'
    IN  /\ page2.isDialogOpen
        /\ page2.formData = page.formData

C20_SignedOutSubmitRefused ==
    [][C20_SubmittedSignedOut => (C20_NoInsert /\ C20_ErrorShown /\ C20_DialogKept)]_vars

\* C20 witness: a filled payment form was submitted with no user, and is
\* still open and filled, with nothing stored.
C20_Witness ==
    /\ toast = "Not authenticated"
    /\ route.path = "/payments"
    /\ paymentsPage.isDialogOpen
    /\ paymentsPage.formData # EmptyPaymentForm
    /\ db_payments = <<>>

(***************************************************************************)
(* C21: a payment figure is derived only from payments that were fetched:  *)
(* when the payments fetch failed, the detail view does not show the       *)
(* student as Unpaid with a total paid of 0, and the dashboard counts no   *)
(* student as pending.                                                     *)
(***************************************************************************)
C21_DerivedFromFetched ==
    /\ (DetailShown /\ studentDetail.paymentsError) =>
          ~ /\ DetailPaymentStatus(DetailStudent, studentDetail.payments) = "Unpaid"
            /\ DetailTotalPaid(studentDetail.payments) = Zero
    /\ (DashboardShown /\ dashboard.payments.error) =>
          dashboard.stats.pendingPayments = 0

(***************************************************************************)
(* C22: registration is all-or-nothing across its two inserts: whenever    *)
(* handleSubmit has finished, a student row exists if and only if its      *)
(* parent row exists.                                                      *)
(***************************************************************************)
C22_StudentIffParent ==
    /\ \A i \in DOMAIN db_students :
          \E k \in DOMAIN db_parents : db_parents[k].student_id = db_students[i].id
    /\ \A k \in DOMAIN db_parents : HasStudent(db_parents[k].student_id)

(***************************************************************************)
(* C28: the total payments of the dashboard is the sum of the amounts of   *)
(* all fetched payments and, when every fetched payment is of a fetched    *)
(* student, it equals the sum over the students of their own totalPaid.    *)
(***************************************************************************)
C28_SumOfOwnTotals(students, payments) ==
    Reduce(LAMBDA sum, row : Plus(sum, row.totalPaid), Zero,
           calculatePaymentStatus(students, payments))

C28_TotalPayments ==
    DashboardShown =>
       LET students == dashboard.students.data
           payments == dashboard.payments.data
       IN  /\ dashboard.stats.totalPayments = Number(SumCents(payments))
           /\ (\A k \in DOMAIN payments :
                  \E i \in DOMAIN students : students[i].id = payments[k].student_id)
                => dashboard.stats.totalPayments = C28_SumOfOwnTotals(students, payments)

(***************************************************************************)
(* C27: on the payments list every student has exactly one of the three    *)
(* statuses, the filter "all" shows every student, each status filter      *)
(* shows exactly the students of that status, and so the three status      *)
(* filters are disjoint and together show the students "all" shows.        *)
(***************************************************************************)
C27_Statuses == StatusFilters \ {"all"}

C27_Indexes(status) ==
    { i \in DOMAIN paymentsPage.studentsWithPayments :
        \E k \in DOMAIN filteredStudents(status, paymentsPage.studentsWithPayments) :
           filteredStudents(status, paymentsPage.studentsWithPayments)[k]
             = paymentsPage.studentsWithPayments[i] }

C27_FiltersPartition ==
    ListShown =>
       LET all == paymentsPage.studentsWithPayments
       IN  /\ \A i \in DOMAIN all : all[i].status \in C27_Statuses
           /\ filteredStudents("all", all) = all
           /\ \A status \in C27_Statuses :
                 C27_Indexes(status) = { i \in DOMAIN all : all[i].status = status }
           /\ \A a, b \in C27_Statuses :
                 a # b => C27_Indexes(a) \cap C27_Indexes(b) = {}
           /\ UNION { C27_Indexes(status) : status \in C27_Statuses } = DOMAIN all
           /\ Len(filteredStudents("Paid", all))
                + Len(filteredStudents("Partial Payment", all))
                + Len(filteredStudents("Unpaid", all)) = Len(all)

\* C27 witness: the list holds a student with a partial payment and one
\* without payments, and the filter set to "Partial Payment" shows only the
\* first.
C27_Witness ==
    /\ ListShown
    /\ paymentsPage.filterStatus = "Partial Payment"
    /\ Len(filteredStudents(paymentsPage.filterStatus,
                            paymentsPage.studentsWithPayments)) = 1
    /\ Len(filteredStudents("Unpaid", paymentsPage.studentsWithPayments)) = 1

(***************************************************************************)
(* C29: the student search shows exactly the loaded students for which     *)
(* the search term is, letter case apart, a substring of the first name,   *)
(* the last name, the ID number or the grade level; an empty term shows    *)
(* every loaded student; changing the term leaves the loaded list as it    *)
(* is.                                                                     *)
(***************************************************************************)
C29_SameLetter(c, d) ==
    \/ c = d
    \/ \E k \in DOMAIN UpperCase : {c, d} = {UpperCase[k], LowerCase[k]}

C29_Occurs(term, column) ==
    \E offset \in 0..Len(column) :
       /\ offset + Len(term) <= Len(column)
       /\ \A k \in DOMAIN term : C29_SameLetter(term[k], column[offset + k])

C29_Matches(student, term) ==
    \/ C29_Occurs(term, student.first_name)
    \/ C29_Occurs(term, student.last_name)
    \/ C29_Occurs(term, student.id_number)
    \/ C29_Occurs(term, student.grade_level)

C29_ListShown == route.path = "/students" /\ ~studentsPage.loading

C29_ShownAreMatches ==
    C29_ListShown =>
       LET shown == StudentsFilteredStudents(studentsPage.students, studentsPage.searchTerm)
       IN  /\ shown = SelectSeq(studentsPage.students,
                                LAMBDA st : C29_Matches(st, studentsPage.searchTerm))
           /\ studentsPage.searchTerm = <<>> => shown = studentsPage.students

C29_TermChanged == \E term \in SearchTerms : StudentsSetSearchTerm(term)

C29_SearchShowsMatches ==
    /\ [](C29_ShownAreMatches)
    /\ [][C29_TermChanged => studentsPage'.students = studentsPage.students]_vars

\* C29 witness: of two loaded students the term "AN", typed in capitals,
\* shows the one whose first name is Ana.
C29_Witness ==
    /\ C29_ListShown
    /\ Len(studentsPage.students) = 2
    /\ studentsPage.searchTerm = <<"A", "N">>
    /\ Len(StudentsFilteredStudents(studentsPage.students, studentsPage.searchTerm)) = 1

(***************************************************************************)
(* C26: a submit of the payment, grade or student form closes the dialog,  *)
(* resets the form and starts a reload if and only if every insert of the  *)
(* submit succeeded; otherwise the dialog stays open, the form data stay   *)
(* as they were and no reload is started.                                  *)
(***************************************************************************)
C26_Closed(page, empty) ==
    /\ ~page.isDialogOpen
    /\ page.formData = empty
    /\ page.inFlight

C26_PaymentSubmit ==
    (\E user, insertError \in BOOLEAN : PaymentsHandleSubmit(user, insertError)) =>
        IF Len(db_payments') = Len(db_payments) + 1
        THEN C26_Closed(paymentsPage', EmptyPaymentForm)
        ELSE paymentsPage' = paymentsPage /\ db_payments' = db_payments

C26_GradeSubmit ==
    (\E user, insertError \in BOOLEAN, now \in Timestamps :
        GradesHandleSubmit(user, insertError, now)) =>
        IF Len(db_grades') = Len(db_grades) + 1
        THEN C26_Closed(gradesPage', EmptyGradeForm)
        ELSE gradesPage' = gradesPage /\ db_grades' = db_grades

C26_StudentSubmit ==
    (\E id \in StudentIds, user, studentError, parentError \in BOOLEAN :
        StudentsHandleSubmit(id, user, studentError, parentError)) =>
        IF /\ Len(db_students') = Len(db_students) + 1
           /\ Len(db_parents') = Len(db_parents) + 1
        THEN C26_Closed(studentsPage', EmptyStudentForm)
        ELSE studentsPage' = studentsPage /\ db_parents' = db_parents

C26_ClosesIffInserted ==
    [][C26_PaymentSubmit /\ C26_GradeSubmit /\ C26_StudentSubmit]_vars

\* C26 witness: the student row went in and the parent row did not, and the
\* dialog is still open with the form as submitted.
C26_Witness ==
    /\ route.path = "/students"
    /\ Len(db_students) = 1
    /\ db_parents = <<>>
    /\ studentsPage.isDialogOpen
    /\ studentsPage.formData = FilledStudentForm
    /\ ~studentsPage.inFlight
    /\ toast = "error"

(***************************************************************************)
(* C23: on the payments page, once every loadData call in flight has       *)
(* finished, the students and payments shown are those of the call made    *)
(* last: a payment whose submit succeeded is among them, and the answer    *)
(* of an earlier, slower call never replaces them.                         *)
(***************************************************************************)
C23_LatestLoadShown ==
    (/\ route.path = "/payments"
     /\ paymentsPage.loads = <<>>
     /\ paymentsPage.lastLoad = "ok")
    => /\ paymentsPage.students = db_students
       /\ paymentsPage.payments = db_payments

(***************************************************************************)
(* C24: loadData of the payments page is all-or-nothing: when the          *)
(* students fetch or the payments fetch returns an error, the students,    *)
(* the payments and the derived status list stay as they were; when both   *)
(* succeed, the three are replaced together.                               *)
(***************************************************************************)
C24_Received(k) ==
    LET load == paymentsPage.loads[k]
    IN  PaymentsLoadDataReceived(k) =>
          IF load.students.error \/ load.payments.error
          THEN /\ paymentsPage'.students = paymentsPage.students
               /\ paymentsPage'.payments = paymentsPage.payments
               /\ paymentsPage'.studentsWithPayments = paymentsPage.studentsWithPayments
          ELSE /\ paymentsPage'.students = load.students.data
               /\ paymentsPage'.payments = load.payments.data
               /\ paymentsPage'.studentsWithPayments =
                    calculatePaymentStatus(load.students.data, load.payments.data)

C24_LoadAllOrNothing ==
    [][\A k \in DOMAIN paymentsPage.loads : C24_Received(k)]_vars

\* C24 witness: the reload after a recorded payment failed on the payments
\* fetch alone, and the page still shows the lists of the load before it.
C24_Witness ==
    /\ route.path = "/payments"
    /\ ~paymentsPage.loading
    /\ paymentsPage.loads = <<>>
    /\ paymentsPage.lastLoad = "error"
    /\ paymentsPage.students = db_students
    /\ Len(paymentsPage.payments) = 1
    /\ Len(db_payments) = 2
    /\ Len(paymentsPage.studentsWithPayments) = 2

(***************************************************************************)
(* C25: every page load ends with loading set to false, whether its        *)
(* fetches succeed or fail, and loading, once false, stays false for as    *)
(* long as the page is mounted, the reload after a submit included.        *)
(***************************************************************************)
C25_Loading ==
    CASE route.path = "/dashboard" -> dashboard.loading
      [] route.path = "/students" -> studentsPage.loading
      [] route.path = "/student" -> studentDetail.loading
      [] route.path = "/payments" -> paymentsPage.loading
      [] route.path = "/grades" -> gradesPage.loading
      [] OTHER -> FALSE

C25_LoadingOf(page) ==
    CASE page = "/dashboard" -> dashboard.loading
      [] page = "/students" -> studentsPage.loading
      [] page = "/student" -> studentDetail.loading
      [] page = "/payments" -> paymentsPage.loading
      [] page = "/grades" -> gradesPage.loading

C25_StaysLoaded == (route' = route /\ ~C25_Loading) => ~C25_Loading'

C25_LoadingEnds ==
    /\ \A page \in Paths :
          (route.path = page /\ C25_LoadingOf(page))
             ~> (route.path # page \/ ~C25_LoadingOf(page))
    /\ [][C25_StaysLoaded]_vars

\* C25 witness: the reload after a recorded payment is in flight and the
\* payments list is shown, not the spinner.
C25_Witness ==
    /\ route.path = "/payments"
    /\ paymentsPage.inFlight
    /\ ~paymentsPage.loading
    /\ db_payments # <<>>

====
